---- MODULE Spec2Model ----
(***************************************************************************)
(* A model of AutoencoderVidTok (autoencoder_vidtok.py): the causal        *)
(* convolutions, the mixed temporal down/upsampling blocks, the encoder    *)
(* and decoder pyramids, and the top-level encode / decode / forward with  *)
(* slicing, tiling and temporal padding.                                   *)
(*                                                                         *)
(* Tensors are modelled by their shape (B, C, T, H, W) together with one   *)
(* provenance label per batch sample; the time axis of a single sample is  *)
(* modelled frame by frame where a claim is about frames.  Time indices    *)
(* are 0-based as in the source; TLA+ sequences are 1-based, so frame t    *)
(* sits at position t + 1.                                                 *)
(***************************************************************************)
EXTENDS Integers, Sequences, FiniteSets, TLC

(***************************************************************************)
(* Bounds of the model.                                                    *)
(***************************************************************************)
MaxLevels == 4          \* longest ch_mult
MaxRatio == 4           \* largest temporal_compression_ratio
MaxBatch == 2           \* largest batch
MaxFrames == 5          \* longest input in the pyramid specifications
MaxUnits == 4           \* largest height/width there, in units of 2^(L-1)

(***************************************************************************)
(* Program constants.                                                      *)
(***************************************************************************)
DefaultInChannels == 3
DefaultOutChannels == 3
DefaultCh == 128
DefaultSampleSize == 256
FsqBase == 8

Min(a, b) == IF a <= b THEN a ELSE b
Max(a, b) == IF a >= b THEN a ELSE b

RECURSIVE Pow(_, _)
Pow(b, n) == IF n <= 0 THEN 1 ELSE b * Pow(b, n - 1)

RECURSIVE SumSeq(_)
SumSeq(s) == IF s = <<>> THEN 0 ELSE Head(s) + SumSeq(Tail(s))

\* int(math.log(n, base)) for n >= 1: the largest k with base^k <= n.
RECURSIVE IntLog(_, _)
IntLog(n, base) == IF n < base THEN 0 ELSE 1 + IntLog(n \div base, base)

\* A fraction num/den stands for a Python float that is exactly num/den.
Frac(num, den) == <<num, den>>
\* int(n * f) and int(n * (1 - f)) for n >= 0 and 0 <= f <= 1.
IntTimes(n, f) == (n * f[1]) \div f[2]
IntTimesOneMinus(n, f) == (n * (f[2] - f[1])) \div f[2]
\* Python truthiness of a float.
FracTruthy(f) == f[1] # 0

\* A crop that keeps the whole dimension.
SliceTo_all(n, limit) == n

\* len(t[:limit]) for a dimension of length n.
SliceTo(n, limit) == IF limit >= 0 THEN Min(n, limit) ELSE Max(n + limit, 0)
\* A crop that keeps every frame.
SliceFrom_all(n, start) == n

\* len(t[start:]) for start >= 0.
SliceFrom(n, start) == Max(n - start, 0)

(***************************************************************************)
(* Tensors: shape, one label per sample, and the exception that replaced   *)
(* the value when the computation raised.                                  *)
(***************************************************************************)
Tensor(ids, c, t, h, w) ==
  [ids |-> ids, c |-> c, t |-> t, h |-> h, w |-> w, err |-> "none"]
Raise(e) == [ids |-> <<>>, c |-> 0, t |-> 0, h |-> 0, w |-> 0, err |-> e]
IsErr(x) == x.err # "none"
Shape(x) == <<Len(x.ids), x.c, x.t, x.h, x.w>>
Sample(src) == [src |-> src, via |-> <<>>]
\* The same module applied to every sample of the batch.
Via(ids, name) == [k \in 1..Len(ids) |-> [ids[k] EXCEPT !.via = Append(@, name)]]

(***************************************************************************)
(* F.pad and convolution along the time axis.  A padded axis is a sequence *)
(* of slots; slot.src is the input frame whose value the slot holds, or -1 *)
(* for a constant zero, and slot.pad tells a padding slot from a data slot.*)
(***************************************************************************)
F_pad(T, left, right, mode) ==
  [p \in 1..(left + T + right) |->
     LET q == p - 1 - left IN
     IF q >= 0 /\ q < T
       THEN [pad |-> FALSE, src |-> q]
       ELSE [pad |-> TRUE,
             src |-> IF mode = "replicate" THEN (IF q < 0 THEN 0 ELSE T - 1)
                     ELSE IF mode = "reflect"
                       THEN (IF q < 0 THEN -q ELSE 2 * (T - 1) - q)
                     ELSE -1]]

\* Output length of a convolution / pooling over n (already padded) positions;
\* -1 when the kernel does not fit, which the tensor runtime raises on.
ConvOutLen(n, k, s, d) ==
  IF n < d * (k - 1) + 1 THEN -1 ELSE (n - d * (k - 1) - 1) \div s + 1

\* The slots each output position reads: output o reads xp[o*s + i*d], i < k.
ConvWindows(xp, k, s, d) ==
  LET n == ConvOutLen(Len(xp), k, s, d) IN
  [o \in 1..Max(n, 0) |-> [i \in 1..k |-> xp[(o - 1) * s + (i - 1) * d + 1]]]

cast_tuple(t, length) == [i \in 1..length |-> t]

VidTokCausalConv1d_init(kernel_size, pad_mode, dilation, stride) ==
  LET time_pad == dilation * (kernel_size - 1) + (1 - stride) IN
  [kernel_size |-> kernel_size, dilation |-> dilation, stride |-> stride,
   pad_mode |-> pad_mode, time_pad |-> time_pad,
   time_causal_padding |-> <<time_pad, 0>>]

\* forward padding in the configured mode whatever the input's length.
CausalPadMode_configured(conv, T) == conv.pad_mode

\* The pad mode forward really uses for an input of T frames.
CausalPadMode(conv, T) == IF conv.time_pad < T THEN conv.pad_mode ELSE "constant"

VidTokCausalConv1d_forward(conv, T) ==
  ConvWindows(F_pad(T, conv.time_causal_padding[1], conv.time_causal_padding[2],
                    CausalPadMode(conv, T)),
              conv.kernel_size, conv.stride, conv.dilation)

\* VidTokCausalConv3d.__init__ putting the time padding after the last frame.
VidTokCausalConv3d_init_trailing(kernel_size, pad_mode, dilation, stride) ==
  LET time_kernel_size == kernel_size[1]
      height_kernel_size == kernel_size[2]
      time_pad == dilation[1] * (time_kernel_size - 1) + (1 - stride[1])
      height_pad == dilation[2] * (height_kernel_size - 1) + (1 - stride[2])
      width_pad == dilation[3] * (height_kernel_size - 1) + (1 - stride[3])
  IN [kernel_size |-> kernel_size, dilation |-> dilation, stride |-> stride,
      pad_mode |-> pad_mode, time_pad |-> time_pad,
      time_causal_padding |->
        <<width_pad \div 2, width_pad - width_pad \div 2,
          height_pad \div 2, height_pad - height_pad \div 2,
          0, time_pad>>]

\* kernel_size, dilation and stride are (time, height, width) triples.
VidTokCausalConv3d_init(kernel_size, pad_mode, dilation, stride) ==
  LET time_kernel_size == kernel_size[1]
      height_kernel_size == kernel_size[2]
      time_pad == dilation[1] * (time_kernel_size - 1) + (1 - stride[1])
      height_pad == dilation[2] * (height_kernel_size - 1) + (1 - stride[2])
      width_pad == dilation[3] * (height_kernel_size - 1) + (1 - stride[3])
  IN [kernel_size |-> kernel_size, dilation |-> dilation, stride |-> stride,
      pad_mode |-> pad_mode, time_pad |-> time_pad,
      time_causal_padding |->
        <<width_pad \div 2, width_pad - width_pad \div 2,
          height_pad \div 2, height_pad - height_pad \div 2,
          time_pad, 0>>]

VidTokCausalConv3d_forward(conv, T) ==
  ConvWindows(F_pad(T, conv.time_causal_padding[5], conv.time_causal_padding[6],
                    CausalPadMode(conv, T)),
              conv.kernel_size[1], conv.stride[1], conv.dilation[1])

\* nn.Conv1d / nn.Conv3d along time: zero padding on both sides.
Conv_forward(T, kernel_size, stride, padding) ==
  ConvWindows(F_pad(T, padding, padding, "constant"), kernel_size, stride, 1)

(***************************************************************************)
(* Shapes of the 3D layers.                                                *)
(***************************************************************************)
\* A 3D convolution over x whose axes were padded by padT, padH, padW in total.
Conv3dShape(x, in_channels, out_channels, k, s, d, padT, padH, padW) ==
  LET t == ConvOutLen(x.t + padT, k[1], s[1], d[1])
      h == ConvOutLen(x.h + padH, k[2], s[2], d[2])
      w == ConvOutLen(x.w + padW, k[3], s[3], d[3])
  IN IF IsErr(x) THEN x
     ELSE IF x.c # in_channels \/ t < 1 \/ h < 1 \/ w < 1 THEN Raise("RuntimeError")
     ELSE Tensor(x.ids, out_channels, t, h, w)

VidTokCausalConv3dShape(x, in_channels, out_channels, kernel_size, stride) ==
  LET conv == VidTokCausalConv3d_init(cast_tuple(kernel_size, 3), "constant",
                                      cast_tuple(1, 3), stride)
      p == conv.time_causal_padding
  IN Conv3dShape(x, in_channels, out_channels, conv.kernel_size, conv.stride,
                 conv.dilation, p[5] + p[6], p[3] + p[4], p[1] + p[2])

\* make_conv_cls(in, out, kernel_size=3, stride=1, padding=1)
MakeConv3dShape(x, is_causal, in_channels, out_channels) ==
  IF is_causal
    THEN VidTokCausalConv3dShape(x, in_channels, out_channels, 3, cast_tuple(1, 3))
    ELSE Conv3dShape(x, in_channels, out_channels, cast_tuple(3, 3),
                     cast_tuple(1, 3), cast_tuple(1, 3), 2, 2, 2)

\* nn.AvgPool3d((3, 1, 1), stride=(2, 1, 1)) over a time axis of n frames.
\* The pool with ceil_mode=True.
AvgPoolOutLen_ceil(n) == ConvOutLen(n + 1, 3, 2, 1)
AvgPoolOutLen(n) == ConvOutLen(n, 3, 2, 1)

VidTokDownsample3DShape(x, is_causal) ==
  LET t1 == AvgPoolOutLen(x.t + 1)
      Mixed(x2) ==
        IF IsErr(x) THEN x
        ELSE IF t1 < 1 \/ IsErr(x2) THEN Raise("RuntimeError")
        ELSE IF <<t1, x.h, x.w>> # <<x2.t, x2.h, x2.w>> THEN Raise("RuntimeError")
        ELSE Tensor(x.ids, x.c, t1, x.h, x.w)
  IN Mixed(IF is_causal
             THEN VidTokCausalConv3dShape(x, x.c, x.c, 3, <<2, 1, 1>>)
             ELSE Conv3dShape(x, x.c, x.c, cast_tuple(3, 3), <<2, 1, 1>>,
                              cast_tuple(1, 3), 1, 2, 2))

VidTokUpsample3DShape(x, is_causal) ==
  LET up == Tensor(x.ids, x.c, 2 * x.t, x.h, x.w)
      Mixed(x_) ==
        IF IsErr(x) THEN x
        ELSE IF IsErr(x_) THEN x_
        ELSE IF Shape(up) # Shape(x_) THEN Raise("RuntimeError")
        ELSE Tensor(x.ids, x.c, up.t, up.h, up.w)
  IN Mixed(MakeConv3dShape(up, is_causal, x.c, x.c))

\* Spatial 2x down/upsampling per frame.
VidTokDownsample2DShape(x) ==
  IF IsErr(x) THEN x
  ELSE IF x.h < 2 \/ x.w < 2 THEN Raise("RuntimeError")
  ELSE Tensor(x.ids, x.c, x.t, x.h \div 2, x.w \div 2)

VidTokUpsample2DShape(x) ==
  IF IsErr(x) THEN x
  ELSE Tensor(x.ids, x.c, x.t, 2 * x.h, 2 * x.w)

(***************************************************************************)
(* The encoder and decoder pyramids.  A forward pass is the sequence of    *)
(* sub-modules it calls, in call order; a layer is                         *)
(* [net, op, level, block], with level/block -1 where they do not apply.   *)
(* ch_mult is modelled by its length num_resolutions: the constructors     *)
(* chain block_in/block_out, so the widths between conv_in and conv_out    *)
(* always fit and are carried as ch.                                       *)
(***************************************************************************)
Layer(net, op, level, block) ==
  [net |-> net, op |-> op, level |-> level, block |-> block]

RECURSIVE Concat(_)
Concat(ss) == IF ss = <<>> THEN <<>> ELSE Head(ss) \o Concat(Tail(ss))

\* n calls of spatial_temporal_resblk: block_s, then block_t, for each i_block.
ResblkPairs(net, op_s, op_t, level, n) ==
  [k \in 1..(2 * n) |->
     IF k % 2 = 1 THEN Layer(net, op_s, level, (k - 1) \div 2)
                  ELSE Layer(net, op_t, level, (k - 1) \div 2)]

\* Temporal halving at one level only.
tempo_ds_single(num_resolutions) == {num_resolutions - 2}
\* Temporal halving at the two shallowest levels.
tempo_ds_shallow(num_resolutions) == {0, 1}
tempo_ds(num_resolutions) == {num_resolutions - 2, num_resolutions - 3}
\* Temporal doubling at the mirror image of the encoder's levels.
tempo_us_shallow == {0, 1}
tempo_us == {1, 2}

EncoderLevel(i_level, num_resolutions, num_res_blocks) ==
  ResblkPairs("encoder", "down.block", "down_temporal.block", i_level, num_res_blocks)
  \o (IF i_level # num_resolutions - 1
        THEN <<Layer("encoder", "down.downsample", i_level, -1)>>
             \o (IF i_level \in tempo_ds(num_resolutions)
                   THEN <<Layer("encoder", "down_temporal.downsample", i_level, -1)>>
                   ELSE <<>>)
        ELSE <<>>)

VidTokEncoder3D_forward(num_resolutions, num_res_blocks) ==
  <<Layer("encoder", "conv_in", -1, -1)>>
  \o Concat([i \in 1..num_resolutions |->
               EncoderLevel(i - 1, num_resolutions, num_res_blocks)])
  \o <<Layer("encoder", "mid.block_1", -1, -1), Layer("encoder", "mid.attn_1", -1, -1),
       Layer("encoder", "mid.block_2", -1, -1), Layer("encoder", "norm_out", -1, -1),
       Layer("encoder", "nonlinearity", -1, -1), Layer("encoder", "conv_out", -1, -1)>>

DecoderLevel(i_level, num_res_blocks) ==
  ResblkPairs("decoder", "up.block", "up_temporal.block", i_level, num_res_blocks + 1)
  \o (IF i_level # 0
        THEN <<Layer("decoder", "up.upsample", i_level, -1)>>
             \o (IF i_level \in tempo_us
                   THEN <<Layer("decoder", "up_temporal.upsample", i_level, -1)>>
                   ELSE <<>>)
        ELSE <<>>)

\* for i_level in reversed(range(num_resolutions))
VidTokDecoder3D_forward(num_resolutions, num_res_blocks) ==
  <<Layer("decoder", "conv_in", -1, -1), Layer("decoder", "mid.block_1", -1, -1),
    Layer("decoder", "mid.attn_1", -1, -1), Layer("decoder", "mid.block_2", -1, -1)>>
  \o Concat([i \in 1..num_resolutions |->
               DecoderLevel(num_resolutions - i, num_res_blocks)])
  \o <<Layer("decoder", "norm_out", -1, -1), Layer("decoder", "nonlinearity", -1, -1),
       Layer("decoder", "conv_out", -1, -1)>>

\* What one layer does to the shape of its input, under configuration c.
LayerShape(l, x, c) ==
  CASE l.op = "conv_in" ->
         MakeConv3dShape(x, c.is_causal,
                         IF l.net = "encoder" THEN c.in_channels ELSE c.z_channels,
                         c.ch)
    [] l.op = "conv_out" ->
         MakeConv3dShape(x, c.is_causal, c.ch,
                         IF l.net = "decoder" THEN c.out_channels
                         ELSE IF c.double_z THEN 2 * c.z_channels ELSE c.z_channels)
    [] l.op = "down.downsample" -> VidTokDownsample2DShape(x)
    [] l.op = "down_temporal.downsample" -> VidTokDownsample3DShape(x, c.is_causal)
    [] l.op = "up.upsample" -> VidTokUpsample2DShape(x)
    [] l.op = "up_temporal.upsample" -> VidTokUpsample3DShape(x, c.is_causal)
    [] OTHER -> x

\* The layers from the i-th on, applied in order; an exception ends the pass.
RECURSIVE RunShapeFrom(_, _, _, _)
RunShapeFrom(layers, i, x, c) ==
  IF i > Len(layers) \/ IsErr(x) THEN x
  ELSE RunShapeFrom(layers, i + 1, LayerShape(layers[i], x, c), c)

RunShape(layers, x, c) == RunShapeFrom(layers, 1, x, c)

\* The module lists the two constructors build, for each pyramid depth and
\* number of residual blocks in use.
MaxResBlocks == 2
EncoderModules ==
  [L \in 1..(MaxLevels + 1), n \in 1..MaxResBlocks |-> VidTokEncoder3D_forward(L, n)]
DecoderModules ==
  [L \in 1..(MaxLevels + 1), n \in 1..MaxResBlocks |-> VidTokDecoder3D_forward(L, n)]

\* self.encoder(x) and self.decoder(z)
Encoder(c, x) ==
  LET Out(h) == IF IsErr(h) THEN h ELSE [h EXCEPT !.ids = Via(@, "encoder")]
  IN Out(RunShape(EncoderModules[c.num_resolutions, c.num_res_blocks], x, c))

Decoder(c, z) ==
  LET Out(h) == IF IsErr(h) THEN h ELSE [h EXCEPT !.ids = Via(@, "decoder")]
  IN Out(RunShape(DecoderModules[c.num_resolutions, c.num_res_blocks], z, c))

(***************************************************************************)
(* AutoencoderVidTok.  `self` is the record of the object's fields; a      *)
(* constructor argument record a has the fields of __init__'s signature,   *)
(* ch_mult being given by its length num_resolutions.                      *)
(***************************************************************************)
\* How __init__ ends: "ok", or the exception that leaves no object behind.
\* The message of the first assert is an f-string that reads self.regtype,
\* an attribute nothing sets, so the failing assert raises AttributeError
\* while building its message.
AutoencoderVidTok_init_status(a) ==
  IF a.regularizer \notin {"kl", "fsq"} THEN "AttributeError"
  ELSE IF a.regularizer = "fsq"
          /\ ~(a.z_channels = IntLog(a.codebook_size, FsqBase) /\ a.double_z = FALSE)
    THEN "AssertionError"
  ELSE "ok"

AutoencoderVidTok_init(a) ==
  [cfg |-> a,
   use_slicing |-> FALSE,
   use_tiling |-> FALSE,
   tile_sample_min_height |-> a.sample_height \div 2,
   tile_sample_min_width |-> a.sample_width \div 2,
   tile_latent_min_height |->
     (a.sample_height \div 2) \div Pow(2, a.num_resolutions - 1),
   tile_latent_min_width |->
     (a.sample_width \div 2) \div Pow(2, a.num_resolutions - 1),
   tile_overlap_factor_height |-> Frac(1, 8),
   tile_overlap_factor_width |-> Frac(1, 8)]

\* enable_tiling leaving the latent thresholds as they were.
enable_tiling_stale(self, tile_sample_min_height, tile_sample_min_width, tile_overlap_factor_height, tile_overlap_factor_width) ==
  [self EXCEPT
     !.use_tiling = TRUE,
     !.tile_sample_min_height =
       IF tile_sample_min_height # 0 THEN tile_sample_min_height ELSE @,
     !.tile_sample_min_width =
       IF tile_sample_min_width # 0 THEN tile_sample_min_width ELSE @,
     !.tile_overlap_factor_height =
       IF FracTruthy(tile_overlap_factor_height) THEN tile_overlap_factor_height
       ELSE @,
     !.tile_overlap_factor_width =
       IF FracTruthy(tile_overlap_factor_width) THEN tile_overlap_factor_width
       ELSE @]

\* An argument left at None is 0 (a size) or Frac(0, 1) (a factor): `or`
\* treats None and zero alike.
enable_tiling(self, tile_sample_min_height, tile_sample_min_width, tile_overlap_factor_height, tile_overlap_factor_width) ==
  LET h == IF tile_sample_min_height # 0 THEN tile_sample_min_height
           ELSE self.tile_sample_min_height
      w == IF tile_sample_min_width # 0 THEN tile_sample_min_width
           ELSE self.tile_sample_min_width
  IN [self EXCEPT
        !.use_tiling = TRUE,
        !.tile_sample_min_height = h,
        !.tile_sample_min_width = w,
        !.tile_latent_min_height = h \div Pow(2, self.cfg.num_resolutions - 1),
        !.tile_latent_min_width = w \div Pow(2, self.cfg.num_resolutions - 1),
        !.tile_overlap_factor_height =
          IF FracTruthy(tile_overlap_factor_height) THEN tile_overlap_factor_height
          ELSE @,
        !.tile_overlap_factor_width =
          IF FracTruthy(tile_overlap_factor_width) THEN tile_overlap_factor_width
          ELSE @]

\* disable_tiling putting the thresholds and factors back to the constructor's.
disable_tiling_reset(self) ==
  [AutoencoderVidTok_init(self.cfg) EXCEPT !.use_slicing = self.use_slicing]
disable_tiling(self) == [self EXCEPT !.use_tiling = FALSE]
\* enable_slicing switching tiling on as well.
enable_slicing_and_tiling(self) == [self EXCEPT !.use_slicing = TRUE, !.use_tiling = TRUE]
enable_slicing(self) == [self EXCEPT !.use_slicing = TRUE]
disable_slicing(self) == [self EXCEPT !.use_slicing = FALSE]

\* The result of a call: the tensor returned (or the exception), which path
\* each _encode / _decode took, and the shapes handed to self.encoder /
\* self.decoder, in call order.
Result(out, paths, calls) == [out |-> out, paths |-> paths, calls |-> calls]

\* range(0, stop, step) for step # 0
RangeStarts(stop, step) ==
  IF step < 0 \/ stop <= 0 THEN <<>>
  ELSE [k \in 1..((stop - 1) \div step + 1) |-> (k - 1) * step]

\* x.split(1) and torch.cat(slices) along the batch axis
split(x) == [k \in 1..Len(x.ids) |-> [x EXCEPT !.ids = <<x.ids[k]>>]]

RECURSIVE cat(_)
cat(ts) ==
  IF ts = <<>> THEN Raise("RuntimeError")
  ELSE IF IsErr(Head(ts)) THEN Head(ts)
  ELSE IF Len(ts) = 1 THEN Head(ts)
  ELSE LET rest == cat(Tail(ts)) IN
       IF IsErr(rest) THEN rest
       ELSE IF <<rest.c, rest.t, rest.h, rest.w>>
               # <<Head(ts).c, Head(ts).t, Head(ts).h, Head(ts).w>>
         THEN Raise("RuntimeError")
       ELSE [rest EXCEPT !.ids = Head(ts).ids \o @]

\* The first exception among the tensors of a grid, "none" if there is none.
FirstErr(rows) ==
  LET bad == {<<a, b>> \in (DOMAIN rows) \X (1..Len(rows[1])) : IsErr(rows[a][b])}
      first == CHOOSE p \in bad :
                 \A q \in bad : p[1] < q[1] \/ (p[1] = q[1] /\ p[2] <= q[2])
  IN IF bad = {} THEN "none" ELSE rows[first[1]][first[2]].err

Net(net, c, x) == IF net = "encoder" THEN Encoder(c, x) ELSE Decoder(c, x)

\* The first loop nest of tiled_encode / tiled_decode: the grid of tiles cut
\* from x, each with the network's output for it.
TileRows(net, c, x, tile_height, tile_width, overlap_height, overlap_width) ==
  LET is == RangeStarts(x.h, overlap_height)
      js == RangeStarts(x.w, overlap_width)
      th(i) == Min(tile_height, x.h - i)
      tw(j) == Min(tile_width, x.w - j)
      \* the network is a function: tiles of one shape have one output shape
      hs == {th(is[a]) : a \in 1..Len(is)}
      ws == {tw(js[b]) : b \in 1..Len(js)}
      out == [h \in hs, w \in ws |-> Net(net, c, Tensor(x.ids, x.c, x.t, h, w))]
  IN [a \in 1..Len(is) |->
        [b \in 1..Len(js) |->
           [i |-> is[a], j |-> js[b],
            tile |-> <<Len(x.ids), x.c, x.t, th(is[a]), tw(js[b])>>,
            out |-> out[th(is[a]), tw(js[b])]]]]

\* The second loop nest and the two torch.cat: blending changes values, not
\* shapes, so the shape of the result is that of the cropped tiles laid out.
Stitch(rows, x, row_limit_height, row_limit_width, name) ==
  LET outs == [a \in 1..Len(rows) |-> [b \in 1..Len(rows[a]) |-> rows[a][b].out]]
      calls == Concat([a \in 1..Len(rows) |->
                         [b \in 1..Len(rows[a]) |-> rows[a][b].tile]])
      err == FirstErr(outs)
      result_h == SumSeq([a \in 1..Len(rows) |->
                            SliceTo(outs[a][1].h, row_limit_height)])
      result_w == SumSeq([b \in 1..Len(rows[1]) |->
                            SliceTo(outs[1][b].w, row_limit_width)])
  IN IF rows = <<>> \/ rows[1] = <<>>
       THEN Result(Raise("RuntimeError"), <<"tiled">>, <<>>)
     ELSE IF err # "none" THEN Result(Raise(err), <<"tiled">>, calls)
     ELSE Result(Tensor(Via(x.ids, name), outs[1][1].c, outs[1][1].t,
                        result_h, result_w),
                 <<"tiled">>, calls)

tiled_encode(self, x) ==
  LET overlap_height ==
        IntTimesOneMinus(self.tile_sample_min_height, self.tile_overlap_factor_height)
      overlap_width ==
        IntTimesOneMinus(self.tile_sample_min_width, self.tile_overlap_factor_width)
      blend_extent_height ==
        IntTimes(self.tile_latent_min_height, self.tile_overlap_factor_height)
      blend_extent_width ==
        IntTimes(self.tile_latent_min_width, self.tile_overlap_factor_width)
      row_limit_height == self.tile_latent_min_height - blend_extent_height
      row_limit_width == self.tile_latent_min_width - blend_extent_width
  IN IF overlap_height = 0 \/ overlap_width = 0
       THEN Result(Raise("ValueError"), <<"tiled">>, <<>>)
       ELSE Stitch(TileRows("encoder", self.cfg, x, self.tile_sample_min_height,
                            self.tile_sample_min_width, overlap_height, overlap_width),
                   x, row_limit_height, row_limit_width, "tiled_encode")

\* tiled_decode with the blend extents and row limits of tiled_encode.
tiled_decode_latent_limits(self, z) ==
  LET overlap_height ==
        IntTimesOneMinus(self.tile_latent_min_height, self.tile_overlap_factor_height)
      overlap_width ==
        IntTimesOneMinus(self.tile_latent_min_width, self.tile_overlap_factor_width)
      blend_extent_height ==
        IntTimes(self.tile_latent_min_height, self.tile_overlap_factor_height)
      blend_extent_width ==
        IntTimes(self.tile_latent_min_width, self.tile_overlap_factor_width)
      row_limit_height == self.tile_latent_min_height - blend_extent_height
      row_limit_width == self.tile_latent_min_width - blend_extent_width
  IN IF overlap_height = 0 \/ overlap_width = 0
       THEN Result(Raise("ValueError"), <<"tiled">>, <<>>)
       ELSE Stitch(TileRows("decoder", self.cfg, z, self.tile_latent_min_height,
                            self.tile_latent_min_width, overlap_height, overlap_width),
                   z, row_limit_height, row_limit_width, "tiled_decode")

tiled_decode(self, z) ==
  LET overlap_height ==
        IntTimesOneMinus(self.tile_latent_min_height, self.tile_overlap_factor_height)
      overlap_width ==
        IntTimesOneMinus(self.tile_latent_min_width, self.tile_overlap_factor_width)
      blend_extent_height ==
        IntTimes(self.tile_sample_min_height, self.tile_overlap_factor_height)
      blend_extent_width ==
        IntTimes(self.tile_sample_min_width, self.tile_overlap_factor_width)
      row_limit_height == self.tile_sample_min_height - blend_extent_height
      row_limit_width == self.tile_sample_min_width - blend_extent_width
  IN IF overlap_height = 0 \/ overlap_width = 0
       THEN Result(Raise("ValueError"), <<"tiled">>, <<>>)
       ELSE Stitch(TileRows("decoder", self.cfg, z, self.tile_latent_min_height,
                            self.tile_latent_min_width, overlap_height, overlap_width),
                   z, row_limit_height, row_limit_width, "tiled_decode")

\* _encode tiling only when both sides exceed their thresholds.
_encode_both_sides(self, x) ==
  IF self.use_tiling /\ (x.w > self.tile_sample_min_width
                         /\ x.h > self.tile_sample_min_height)
    THEN tiled_encode(self, x)
    ELSE Result(Encoder(self.cfg, x), <<"whole">>, <<Shape(x)>>)

_encode(self, x) ==
  IF self.use_tiling /\ (x.w > self.tile_sample_min_width
                         \/ x.h > self.tile_sample_min_height)
    THEN tiled_encode(self, x)
    ELSE Result(Encoder(self.cfg, x), <<"whole">>, <<Shape(x)>>)

_decode(self, z) ==
  IF self.use_tiling /\ (z.w > self.tile_latent_min_width
                         \/ z.h > self.tile_latent_min_height)
    THEN tiled_decode(self, z)
    ELSE Result(Decoder(self.cfg, z), <<"whole">>, <<Shape(z)>>)

\* DiagonalGaussianDistribution(z): mean and logvar are the two halves of the
\* channel axis; sample() and mode() have the shape of the mean.
Posterior(z, how) ==
  IF IsErr(z) THEN z
  ELSE IF z.c < 2 THEN Raise("ValueError")
  ELSE Tensor(Via(z.ids, how), z.c \div 2, z.t, z.h, z.w)

\* FSQRegularizer(levels=[8] * z_channels)(z)[0]
Quantize(z) == IF IsErr(z) THEN z ELSE [z EXCEPT !.ids = Via(@, "fsq")]

\* The loop keeping only the slice it encoded last.
Sliced_last(parts) ==
  Result(parts[Len(parts)].out,
         Concat([k \in 1..Len(parts) |-> parts[k].paths]),
         Concat([k \in 1..Len(parts) |-> parts[k].calls]))

\* The loop over the slices and the torch.cat of what it collected.
Sliced(parts) ==
  Result(cat([k \in 1..Len(parts) |-> parts[k].out]),
         Concat([k \in 1..Len(parts) |-> parts[k].paths]),
         Concat([k \in 1..Len(parts) |-> parts[k].calls]))

\* encode returns kind "AutoencoderKLOutput", out being the parameters of
\* latent_dist, or kind "Tensor", out being quant_z.
encode(self, x) ==
  LET Return(r) ==
        IF self.cfg.regularizer = "kl"
          THEN [kind |-> "AutoencoderKLOutput", out |-> r.out,
                paths |-> r.paths, calls |-> r.calls]
          ELSE [kind |-> "Tensor", out |-> Quantize(r.out),
                paths |-> r.paths, calls |-> r.calls]
  IN Return(IF self.use_slicing /\ Len(x.ids) > 1
              THEN Sliced([k \in 1..Len(x.ids) |-> _encode(self, split(x)[k])])
              ELSE _encode(self, x))

decode(self, z) ==
  LET Return(r) ==
        [kind |-> "DecoderOutput", out |-> r.out, paths |-> r.paths, calls |-> r.calls]
  IN Return(IF self.use_slicing /\ Len(z.ids) > 1
              THEN Sliced([k \in 1..Len(z.ids) |-> _decode(self, split(z)[k])])
              ELSE _decode(self, z))

\* pad_at_dim(x, (left, 0), dim=2, pad_mode="replicate")
pad_at_dim(x, left) == [x EXCEPT !.t = @ + left]

\* forward drawing posterior.sample() whatever sample_posterior is.
Latent_sample(self, e, sample_posterior) ==
  IF self.cfg.regularizer = "kl"
    THEN Posterior(e.out, "sample")
    ELSE e.out

\* The latent forward (or a caller of encode) hands to decode.
Latent(self, e, sample_posterior) ==
  IF self.cfg.regularizer = "kl"
    THEN Posterior(e.out, IF sample_posterior THEN "sample" ELSE "mode")
    ELSE e.out

forward(self, sample, sample_posterior) ==
  LET r == self.cfg.temporal_compression_ratio
      time_padding == IF (sample.t % r) # 0 THEN r - (sample.t % r) ELSE 0
      x == IF time_padding # 0 THEN pad_at_dim(sample, time_padding) ELSE sample
      Return(e, z, d) ==
        [kind |-> "DecoderOutput",
         out |-> IF IsErr(d.out) THEN d.out
                 ELSE [d.out EXCEPT !.t = SliceFrom(@, time_padding)],
         time_padding |-> time_padding,
         latent |-> z, enc_paths |-> e.paths, enc_calls |-> e.calls,
         dec_paths |-> d.paths, dec_calls |-> d.calls]
      Decoded(e, z) ==
        Return(e, z, IF IsErr(z)
                       THEN [kind |-> "none", out |-> z, paths |-> <<>>, calls |-> <<>>]
                       ELSE decode(self, z))
      Encoded(e) == Decoded(e, Latent(self, e, sample_posterior))
  IN Encoded(encode(self, x))

(***************************************************************************)
(* State.  cfg and status are the constructor's arguments and how          *)
(* construction ended ("new" before __init__ has run); the next eight are  *)
(* the object's mutable fields; x is the batch the harness loaded          *)
(* (test.py: "load data") and ret the result of the last call made since   *)
(* the settings were last changed.                                         *)
(***************************************************************************)
VARIABLES cfg, status, use_slicing, use_tiling,
          tile_sample_min_height, tile_sample_min_width,
          tile_latent_min_height, tile_latent_min_width,
          tile_overlap_factor_height, tile_overlap_factor_width,
          x, ret, conv, mix, probe

fields == <<use_slicing, use_tiling, tile_sample_min_height, tile_sample_min_width,
            tile_latent_min_height, tile_latent_min_width,
            tile_overlap_factor_height, tile_overlap_factor_width>>
\* The components taken apart: conv is a causal convolution on its own, mix a
\* mixed down/upsampling block on its own, probe the frames each output frame
\* of a network was computed from.
components == <<conv, mix, probe>>
vars == <<cfg, status, fields, x, ret, components>>

self ==
  [cfg |-> cfg, use_slicing |-> use_slicing, use_tiling |-> use_tiling,
   tile_sample_min_height |-> tile_sample_min_height,
   tile_sample_min_width |-> tile_sample_min_width,
   tile_latent_min_height |-> tile_latent_min_height,
   tile_latent_min_width |-> tile_latent_min_width,
   tile_overlap_factor_height |-> tile_overlap_factor_height,
   tile_overlap_factor_width |-> tile_overlap_factor_width]

\* The fields take the values of record s.
SetSelf(s) ==
  /\ use_slicing' = s.use_slicing
  /\ use_tiling' = s.use_tiling
  /\ tile_sample_min_height' = s.tile_sample_min_height
  /\ tile_sample_min_width' = s.tile_sample_min_width
  /\ tile_latent_min_height' = s.tile_latent_min_height
  /\ tile_latent_min_width' = s.tile_latent_min_width
  /\ tile_overlap_factor_height' = s.tile_overlap_factor_height
  /\ tile_overlap_factor_width' = s.tile_overlap_factor_width

FieldsAre(s) ==
  /\ use_slicing = s.use_slicing
  /\ use_tiling = s.use_tiling
  /\ tile_sample_min_height = s.tile_sample_min_height
  /\ tile_sample_min_width = s.tile_sample_min_width
  /\ tile_latent_min_height = s.tile_latent_min_height
  /\ tile_latent_min_width = s.tile_latent_min_width
  /\ tile_overlap_factor_height = s.tile_overlap_factor_height
  /\ tile_overlap_factor_width = s.tile_overlap_factor_width

\* No object yet (or none at all, construction having failed).
NoObject ==
  [use_slicing |-> FALSE, use_tiling |-> FALSE,
   tile_sample_min_height |-> 0, tile_sample_min_width |-> 0,
   tile_latent_min_height |-> 0, tile_latent_min_width |-> 0,
   tile_overlap_factor_height |-> Frac(0, 1), tile_overlap_factor_width |-> Frac(0, 1)]

NoTensor == Raise("unset")
NoConv == [kind |-> "none"]
NoMix == [kind |-> "none"]
NoProbe == [net |-> "none"]
NoParts == conv = NoConv /\ mix = NoMix /\ probe = NoProbe
NoCall ==
  [op |-> "none", sample_posterior |-> FALSE, kind |-> "none", out |-> NoTensor,
   time_padding |-> 0, latent |-> NoTensor,
   enc_paths |-> <<>>, enc_calls |-> <<>>, dec_paths |-> <<>>, dec_calls |-> <<>>]

\* AutoencoderVidTok(**a): the arguments of __init__, others at their defaults.
Args(num_resolutions, temporal_compression_ratio, regularizer, z_channels, codebook_size, double_z, is_causal, num_res_blocks) ==
  [in_channels |-> DefaultInChannels, out_channels |-> DefaultOutChannels,
   ch |-> DefaultCh, num_resolutions |-> num_resolutions,
   z_channels |-> z_channels, double_z |-> double_z,
   num_res_blocks |-> num_res_blocks,
   temporal_compression_ratio |-> temporal_compression_ratio,
   regularizer |-> regularizer, codebook_size |-> codebook_size,
   is_causal |-> is_causal,
   sample_height |-> DefaultSampleSize, sample_width |-> DefaultSampleSize]

(***************************************************************************)
(* Actions.                                                                *)
(***************************************************************************)
Construct ==
  /\ status = "new"
  /\ status' = AutoencoderVidTok_init_status(cfg)
  /\ IF status' = "ok" THEN SetSelf(AutoencoderVidTok_init(cfg))
                       ELSE UNCHANGED fields
  /\ UNCHANGED <<cfg, x, ret, components>>

EnableTiling(args) ==
  /\ status = "ok"
  /\ SetSelf(enable_tiling(self, args[1], args[2], args[3], args[4]))
  /\ ret' = NoCall
  /\ UNCHANGED <<cfg, status, x, components>>

DisableTiling ==
  /\ status = "ok"
  /\ SetSelf(disable_tiling(self))
  /\ ret' = NoCall
  /\ UNCHANGED <<cfg, status, x, components>>

EnableSlicing ==
  /\ status = "ok"
  /\ SetSelf(enable_slicing(self))
  /\ ret' = NoCall
  /\ UNCHANGED <<cfg, status, x, components>>

DisableSlicing ==
  /\ status = "ok"
  /\ SetSelf(disable_slicing(self))
  /\ ret' = NoCall
  /\ UNCHANGED <<cfg, status, x, components>>

\* The harness loads one batch of B videos of in_channels x T x H x W.
LoadData(Bs, Ts, Hs, Ws) ==
  /\ status = "ok"
  /\ x = NoTensor
  /\ \E B \in Bs, T \in Ts, H \in Hs, W \in Ws :
       x' = Tensor([k \in 1..B |-> Sample(k)], cfg.in_channels, T, H, W)
  /\ UNCHANGED <<cfg, status, fields, ret, components>>

\* The record ret keeps of a call.
EncodeCall(s, v) ==
  LET Kept(e) ==
        [NoCall EXCEPT !.op = "encode", !.kind = e.kind, !.out = e.out,
                       !.enc_paths = e.paths, !.enc_calls = e.calls]
  IN Kept(encode(s, v))

DecodeCall(s, z, sample_posterior) ==
  LET Kept(d) ==
        [NoCall EXCEPT !.op = "decode", !.sample_posterior = sample_posterior,
                       !.kind = d.kind, !.out = d.out, !.latent = z,
                       !.dec_paths = d.paths, !.dec_calls = d.calls]
  IN Kept(decode(s, z))

ForwardCall(s, v, sample_posterior) ==
  LET Kept(f) ==
        [op |-> "forward", sample_posterior |-> sample_posterior,
         kind |-> f.kind, out |-> f.out, time_padding |-> f.time_padding,
         latent |-> f.latent, enc_paths |-> f.enc_paths, enc_calls |-> f.enc_calls,
         dec_paths |-> f.dec_paths, dec_calls |-> f.dec_calls]
  IN Kept(forward(s, v, sample_posterior))

Encode ==
  /\ status = "ok"
  /\ x # NoTensor
  /\ ret' = EncodeCall(self, x)
  /\ UNCHANGED <<cfg, status, fields, x, components>>

\* decode of the latent drawn from the last encode's result.
Decode(sample_posterior) ==
  /\ status = "ok"
  /\ ret.op = "encode"
  /\ ~IsErr(Latent(self, ret, sample_posterior))
  /\ ret' = DecodeCall(self, Latent(self, ret, sample_posterior), sample_posterior)
  /\ UNCHANGED <<cfg, status, fields, x, components>>

Forward(sample_posterior) ==
  /\ status = "ok"
  /\ x # NoTensor
  /\ ret' = ForwardCall(self, x, sample_posterior)
  /\ UNCHANGED <<cfg, status, fields, x, components>>

(***************************************************************************)
(* Spec: one model object through its life.  The configurations are the    *)
(* three regularizer set-ups the constructor accepts, at every pyramid     *)
(* depth; the inputs straddle the tile thresholds.                         *)
(***************************************************************************)
Regularizers ==
  { [regularizer |-> "kl", z_channels |-> 2, codebook_size |-> 64, double_z |-> TRUE],
    [regularizer |-> "kl", z_channels |-> 2, codebook_size |-> 64, double_z |-> FALSE],
    [regularizer |-> "fsq", z_channels |-> 2, codebook_size |-> 64, double_z |-> FALSE] }
WithRegularizer(L, r, g, is_causal, nrb) ==
  Args(L, r, g.regularizer, g.z_channels, g.codebook_size, g.double_z, is_causal, nrb)
NoFactor == Frac(0, 1)
\* enable_tiling(): every argument None
DefaultTilingArgs == <<0, 0, NoFactor, NoFactor>>
TilingArgs == {DefaultTilingArgs, <<64, 0, NoFactor, Frac(1, 4)>>, <<64, 64, Frac(1, 4), Frac(1, 4)>>}
TiledFrames == {1, 2}
TiledSizes == {8, 72, 136}

Constructed(a) ==
  /\ cfg = a
  /\ status = "ok"
  /\ FieldsAre(AutoencoderVidTok_init(a))
  /\ x = NoTensor
  /\ ret = NoCall
  /\ NoParts

Init ==
  \E L \in 1..MaxLevels, g \in {r \in Regularizers : r.regularizer = "fsq" \/ r.double_z} :
    Constructed(WithRegularizer(L, 4, g, TRUE, 2))

Next ==
  \/ \E args \in TilingArgs : EnableTiling(args)
  \/ DisableTiling
  \/ EnableSlicing
  \/ DisableSlicing
  \/ LoadData(1..MaxBatch, TiledFrames, TiledSizes, TiledSizes)
  \/ Encode
  \/ \E sample_posterior \in BOOLEAN : Decode(sample_posterior)
  \/ \E sample_posterior \in BOOLEAN : Forward(sample_posterior)

Spec == Init /\ [][Next]_vars

(***************************************************************************)
(* SpecShape: the pyramids at every depth, ratio, regularizer and          *)
(* causality, tiling and slicing left disabled as constructed; heights and *)
(* widths are the multiples of 2^(L-1).                                    *)
(***************************************************************************)
InitShape ==
  \E L \in 1..MaxLevels, r \in 1..MaxRatio, g \in Regularizers, is_causal \in BOOLEAN :
    Constructed(WithRegularizer(L, r, g, is_causal, 2))

Multiples == {u * Pow(2, cfg.num_resolutions - 1) : u \in 1..MaxUnits}

NextShape ==
  \/ LoadData({1}, 1..MaxFrames, Multiples, Multiples)
  \/ Encode
  \/ \E sample_posterior \in BOOLEAN : Decode(sample_posterior)
  \/ \E sample_posterior \in BOOLEAN : Forward(sample_posterior)

SpecShape == InitShape /\ [][NextShape]_vars

(***************************************************************************)
(* SpecDefault: the run of test.py.  The model is built from test.py's     *)
(* config, enable_tiling() and enable_slicing() are called without         *)
(* arguments, then a clip is loaded and passed through forward with        *)
(* sample_posterior=True.  Heights and widths are the multiples of 8 up to *)
(* past the three-tile mark; the lengths are the short ones and test.py's  *)
(* sample_num = 18; the batch is test.py's single clip or a pair.          *)
(***************************************************************************)
MaxDefaultUnits == 33
MaxDefaultFrames == 4
TestConfig == Args(4, 4, "kl", 16, 262144, TRUE, TRUE, 2)
DefaultSizes == {8 * u : u \in 1..MaxDefaultUnits}
DefaultFrames == (1..MaxDefaultFrames) \cup {18}

InitDefault == Constructed(TestConfig)

NextDefault ==
  \/ EnableTiling(DefaultTilingArgs)
  \/ EnableSlicing
  \/ use_tiling /\ use_slicing
       /\ LoadData({1, 2}, DefaultFrames, DefaultSizes, DefaultSizes)
  \/ Forward(TRUE)

SpecDefault == InitDefault /\ [][NextDefault]_vars

(***************************************************************************)
(* SpecCtor: __init__ on its arguments, valid or not.                      *)
(***************************************************************************)
MaxZChannels == 3
MaxCodebook == 520
RegularizerKinds == {"kl", "fsq", "vq", "none"}

InitCtor ==
  /\ \E g \in RegularizerKinds, z \in 1..MaxZChannels, n \in 1..MaxCodebook,
        double_z \in BOOLEAN :
       cfg = Args(4, 4, g, z, n, double_z, TRUE, 2)
  /\ status = "new"
  /\ FieldsAre(NoObject)
  /\ x = NoTensor
  /\ ret = NoCall
  /\ NoParts

NextCtor == Construct

SpecCtor == InitCtor /\ [][NextCtor]_vars

(***************************************************************************)
(* SpecConv: one VidTokCausalConv1d or VidTokCausalConv3d, built with a    *)
(* time kernel, dilation, stride and pad mode and applied to T frames.     *)
(* conv.out lists, for each output frame, the slots of the padded input    *)
(* the kernel taps read.                                                   *)
(***************************************************************************)
MaxKernel == 3
MaxDilation == 2
MaxConvFrames == 5
PadModes == {"constant", "replicate", "reflect"}

\* conv = VidTokCausalConv1d(c, c, kernel_size, pad_mode, dilation=, stride=)
MakeConv1d(kernel_size, pad_mode, dilation, stride) ==
  /\ conv = NoConv
  /\ conv' = [kind |-> "1d", ran |-> FALSE, T |-> 0, out |-> <<>>,
              m |-> VidTokCausalConv1d_init(kernel_size, pad_mode, dilation, stride)]
  /\ UNCHANGED <<cfg, status, fields, x, ret, mix, probe>>

\* conv = VidTokCausalConv3d(c, c, (kernel_size, 3, 3), pad_mode,
\*                           dilation=(dilation, 1, 1), stride=(stride, 1, 1))
MakeConv3d(kernel_size, pad_mode, dilation, stride) ==
  /\ conv = NoConv
  /\ conv' = [kind |-> "3d", ran |-> FALSE, T |-> 0, out |-> <<>>,
              m |-> VidTokCausalConv3d_init(<<kernel_size, 3, 3>>, pad_mode,
                                            <<dilation, 1, 1>>, <<stride, 1, 1>>)]
  /\ UNCHANGED <<cfg, status, fields, x, ret, mix, probe>>

\* conv(x) for x of T frames
ConvForward(T) ==
  /\ conv # NoConv
  /\ ~conv.ran
  /\ conv' = [conv EXCEPT !.ran = TRUE, !.T = T,
                          !.out = IF conv.kind = "1d"
                                    THEN VidTokCausalConv1d_forward(conv.m, T)
                                    ELSE VidTokCausalConv3d_forward(conv.m, T)]
  /\ UNCHANGED <<cfg, status, fields, x, ret, mix, probe>>

InitConv ==
  /\ cfg = TestConfig
  /\ status = "new"
  /\ FieldsAre(NoObject)
  /\ x = NoTensor
  /\ ret = NoCall
  /\ NoParts

\* The strides are those the repository builds: 1, and 2 under a kernel of 3.
NextConv ==
  \/ \E k \in 1..MaxKernel, mode \in PadModes, d \in 1..MaxDilation, s \in {1, 2} :
       (s = 1 \/ k = 3) /\ MakeConv1d(k, mode, d, s)
  \/ \E k \in 1..MaxKernel, mode \in PadModes, d \in 1..MaxDilation, s \in {1, 2} :
       (s = 1 \/ k = 3) /\ MakeConv3d(k, mode, d, s)
  \/ \E T \in 1..MaxConvFrames : ConvForward(T)

SpecConv == InitConv /\ [][NextConv]_vars

(***************************************************************************)
(* SpecMix: the blend at the end of VidTokDownsample3D.forward and         *)
(* VidTokUpsample3D.forward, on one element of the two paths.  Values are  *)
(* in thousandths; the learned mix_factor is a finite value or has been    *)
(* driven to minus or plus infinity.                                       *)
(***************************************************************************)
MaxValue == 2
MixFactor(inf, v) == [inf |-> inf, v |-> v]
MixFactors ==
  {MixFactor(-1, 0), MixFactor(1, 0)} \cup {MixFactor(0, v) : v \in -2..2}

\* torch.sigmoid(mix_factor), in thousandths
sigmoid(m) ==
  IF m.inf < 0 THEN 0
  ELSE IF m.inf > 0 THEN 1000
  ELSE CASE m.v = -2 -> 119 [] m.v = -1 -> 269 [] m.v = 0 -> 500
         [] m.v = 1 -> 731 [] m.v = 2 -> 881

\* VidTokDownsample3D.forward with the weights of the two paths exchanged.
VidTokDownsample3D_blend_swapped(mix_factor, x1, x2) ==
  LET alpha == sigmoid(mix_factor) IN (1000 - alpha) * x1 + alpha * x2

\* alpha * x1 + (1 - alpha) * x2: x1 the average pool, x2 the convolution
VidTokDownsample3D_blend(mix_factor, x1, x2) ==
  LET alpha == sigmoid(mix_factor) IN alpha * x1 + (1000 - alpha) * x2

\* alpha * x + (1 - alpha) * x_: x (here x1) the interpolation, x_ its convolution
VidTokUpsample3D_blend(mix_factor, x1, x_) ==
  LET alpha == sigmoid(mix_factor) IN alpha * x1 + (1000 - alpha) * x_

\* The block's mix_factor parameter has reached the value m.
SetMixFactor(kind, m) ==
  /\ mix = NoMix
  /\ mix' = [kind |-> kind, mix_factor |-> m, ran |-> FALSE,
             path_a |-> 0, path_b |-> 0, out |-> 0]
  /\ UNCHANGED <<cfg, status, fields, x, ret, conv, probe>>

\* forward on an input whose path A element is a and path B element is b
MixForward(a, b) ==
  /\ mix # NoMix
  /\ ~mix.ran
  /\ mix' = [mix EXCEPT !.ran = TRUE, !.path_a = a, !.path_b = b,
                        !.out = IF mix.kind = "VidTokDownsample3D"
                                  THEN VidTokDownsample3D_blend(mix.mix_factor, a, b)
                                  ELSE VidTokUpsample3D_blend(mix.mix_factor, a, b)]
  /\ UNCHANGED <<cfg, status, fields, x, ret, conv, probe>>

NextMix ==
  \/ \E kind \in {"VidTokDownsample3D", "VidTokUpsample3D"}, m \in MixFactors :
       SetMixFactor(kind, m)
  \/ \E a \in (-MaxValue)..MaxValue, b \in (-MaxValue)..MaxValue : MixForward(a, b)

SpecMix == InitConv /\ [][NextMix]_vars

(***************************************************************************)
(* SpecCausal: which input frames each output frame is computed from.  A   *)
(* dependency list D has one entry per frame of a tensor: the set of the   *)
(* frames of the network's input that frame was computed from.  The same   *)
(* module lists as for the shapes are run over it.                         *)
(***************************************************************************)
MaxProbeFrames == 8

\* The frames the slots of a (padded) input hold.
SlotDeps(slots) ==
  [p \in 1..Len(slots) |-> IF slots[p].src < 0 THEN {} ELSE {slots[p].src}]

\* A convolution or pooling with these windows over a tensor of dependencies D.
Reads(D, windows) ==
  [o \in 1..Len(windows) |->
     UNION {IF windows[o][i].src < 0 THEN {} ELSE D[windows[o][i].src + 1] :
              i \in 1..Len(windows[o])}]

\* a + b, element by element
AddDeps(a, b) == [t \in 1..Min(Len(a), Len(b)) |-> a[t] \cup b[t]]

\* make_conv_cls(.., kernel_size=3, stride=1, padding=1) of a block type
MakeConvDeps(D, btype, is_causal) ==
  IF btype = "2d" THEN D
  ELSE IF ~is_causal THEN Reads(D, Conv_forward(Len(D), 3, 1, 1))
  ELSE IF btype = "1d"
    THEN Reads(D, VidTokCausalConv1d_forward(
                    VidTokCausalConv1d_init(3, "constant", 1, 1), Len(D)))
  ELSE Reads(D, VidTokCausalConv3d_forward(
                  VidTokCausalConv3d_init(cast_tuple(3, 3), "constant",
                                          cast_tuple(1, 3), cast_tuple(1, 3)), Len(D)))

\* x + conv2(conv1(x)); norms, nonlinearity and dropout act on each position
VidTokResnetBlockDeps(D, btype, is_causal) ==
  AddDeps(D, MakeConvDeps(MakeConvDeps(D, btype, is_causal), btype, is_causal))

VidTokDownsample3DDeps(D, is_causal) ==
  LET T == Len(D)
      back == F_pad(T, 0, 1, "constant")
      x1 == IF is_causal THEN Reads(D, ConvWindows(F_pad(T, 1, 0, "constant"), 3, 2, 1))
            ELSE Reads(D, ConvWindows(back, 3, 2, 1))
      x2 == IF is_causal
              THEN Reads(D, VidTokCausalConv3d_forward(
                              VidTokCausalConv3d_init(cast_tuple(3, 3), "constant",
                                                      cast_tuple(1, 3), <<2, 1, 1>>), T))
              ELSE Reads(D, ConvWindows(back, 3, 2, 1))
  IN AddDeps(x1, x2)

VidTokUpsample3DDeps(D, is_causal) ==
  LET up == [u \in 1..(2 * Len(D)) |-> D[(u - 1) \div 2 + 1]]
  IN AddDeps(up, MakeConvDeps(up, "3d", is_causal))

\* What one layer does to the dependencies of its input.
LayerDeps(l, D, c) ==
  CASE l.op \in {"conv_in", "conv_out"} -> MakeConvDeps(D, "3d", c.is_causal)
    [] l.op \in {"down.block", "up.block"} -> VidTokResnetBlockDeps(D, "2d", c.is_causal)
    [] l.op \in {"down_temporal.block", "up_temporal.block"} ->
         VidTokResnetBlockDeps(D, "1d", c.is_causal)
    [] l.op \in {"mid.block_1", "mid.block_2"} -> VidTokResnetBlockDeps(D, "3d", c.is_causal)
    [] l.op = "down_temporal.downsample" -> VidTokDownsample3DDeps(D, c.is_causal)
    [] l.op = "up_temporal.upsample" -> VidTokUpsample3DDeps(D, c.is_causal)
    [] OTHER -> D

RECURSIVE RunDepsFrom(_, _, _, _)
RunDepsFrom(layers, i, D, c) ==
  IF i > Len(layers) \/ D = <<>> THEN D
  ELSE RunDepsFrom(layers, i + 1, LayerDeps(layers[i], D, c), c)

EncoderDeps(c, D) ==
  RunDepsFrom(EncoderModules[c.num_resolutions, c.num_res_blocks], 1, D, c)
DecoderDeps(c, D) ==
  RunDepsFrom(DecoderModules[c.num_resolutions, c.num_res_blocks], 1, D, c)

\* The dependencies of forward's output on the frames of its input.
forwardDeps(c, T) ==
  LET r == c.temporal_compression_ratio
      time_padding == IF (T % r) # 0 THEN r - (T % r) ELSE 0
      padded == SlotDeps(F_pad(T, time_padding, 0, "replicate"))
      dec == DecoderDeps(c, EncoderDeps(c, padded))
  IN SubSeq(dec, time_padding + 1, Len(dec))

Probed(net, out, T, time_padding, deps) ==
  [net |-> net, err |-> IsErr(out), T |-> T, frames |-> out.t,
   time_padding |-> time_padding, deps |-> IF IsErr(out) THEN <<>> ELSE deps]

Whole(T) == SlotDeps(F_pad(T, 0, 0, "constant"))

\* self.encoder(x), frame by frame
ProbeEncoder ==
  /\ status = "ok"
  /\ x # NoTensor
  /\ probe' = Probed("encoder", Encoder(cfg, x), x.t, 0, EncoderDeps(cfg, Whole(x.t)))
  /\ UNCHANGED <<cfg, status, fields, x, ret, conv, mix>>

\* self.decoder(z) for a latent z of the size of x, frame by frame
ProbeDecoder ==
  /\ status = "ok"
  /\ x # NoTensor
  /\ probe' = Probed("decoder", Decoder(cfg, [x EXCEPT !.c = cfg.z_channels]),
                     x.t, 0, DecoderDeps(cfg, Whole(x.t)))
  /\ UNCHANGED <<cfg, status, fields, x, ret, conv, mix>>

\* self(x), frame by frame
ProbeForward ==
  /\ status = "ok"
  /\ x # NoTensor
  /\ LET Of(f) == Probed("forward", f.out, x.t, f.time_padding, forwardDeps(cfg, x.t))
     IN probe' = Of(forward(self, x, FALSE))
  /\ UNCHANGED <<cfg, status, fields, x, ret, conv, mix>>

InitCausal ==
  \E L \in 1..MaxLevels, r \in {1, 2, 4}, is_causal \in BOOLEAN :
    Constructed(Args(L, r, "kl", 2, 64, TRUE, is_causal, 2))

NextCausal ==
  \/ LoadData({1}, 1..MaxProbeFrames, {Pow(2, cfg.num_resolutions - 1)},
              {Pow(2, cfg.num_resolutions - 1)})
  \/ ProbeEncoder
  \/ ProbeDecoder
  \/ ProbeForward

SpecCausal == InitCausal /\ [][NextCausal]_vars

(***************************************************************************)
(* The claims.                                                             *)
(***************************************************************************)
\* The configurations whose latent the decoder accepts: KL with the doubled
\* channels the posterior halves, or FSQ.
LatentFits == cfg.double_z = (cfg.regularizer = "kl")

\* C1: for every valid configuration and every input with T >= 1 and H, W
\* multiples of 2^(L-1), forward(x) with tiling and slicing disabled returns
\* a tensor whose shape is exactly the shape of x, also when T is not a
\* multiple of temporal_compression_ratio.
C1_ForwardKeepsShape ==
  (ret.op = "forward" /\ ~use_tiling /\ ~use_slicing /\ LatentFits)
    => (~IsErr(ret.out) /\ Shape(ret.out) = Shape(x))

\* C4: the encoder divides height and width by exactly 2^(L-1) and the number
\* of frames by exactly temporal_compression_ratio: the latent of T frames
\* has T / temporal_compression_ratio frames.
C4_EncoderCompression ==
  (ret.op = "encode" /\ ~IsErr(ret.out)
     /\ x.t % cfg.temporal_compression_ratio = 0)
    => /\ ret.out.h * Pow(2, cfg.num_resolutions - 1) = x.h
       /\ ret.out.w * Pow(2, cfg.num_resolutions - 1) = x.w
       /\ ret.out.t * cfg.temporal_compression_ratio = x.t

\* C2: on the model of test.py with enable_tiling() and enable_slicing()
\* called without arguments, forward(x) returns a tensor of exactly the shape
\* of x for every T >= 1 and every H, W that are multiples of 8, on the tiled
\* path and on the whole-tensor path.
C2_DefaultTilingKeepsShape ==
  (ret.op = "forward" /\ use_tiling /\ use_slicing)
    => (~IsErr(ret.out) /\ Shape(ret.out) = Shape(x))

\* test.py's clip of 18 frames of 256 x 256 went down the tiled path both ways
\* and came back in its own shape.
C2_TestClipTiled ==
  /\ ret.op = "forward" /\ use_tiling /\ use_slicing
  /\ Shape(x) = <<1, 3, 18, 256, 256>>
  /\ ret.time_padding = 2
  /\ ret.enc_paths = <<"tiled">> /\ Len(ret.enc_calls) = 9
  /\ ret.dec_paths = <<"tiled">> /\ Len(ret.dec_calls) = 9
  /\ ~IsErr(ret.out) /\ Shape(ret.out) = Shape(x)

\* The object with slicing switched off.
Unsliced == [self EXCEPT !.use_slicing = FALSE]

\* C3: for a batch of N > 1, encode with slicing enabled returns the
\* concatenation, in batch order, of the encodings of the N single-sample
\* slices, which is what encode returns with slicing disabled; the same for
\* decode; with N = 1 or slicing disabled the batch is not split.
C3_SlicingInvariant ==
  /\ (ret.op = "encode" /\ use_slicing /\ Len(x.ids) > 1)
       => /\ ret.out = encode(Unsliced, x).out
          /\ ret.out = cat([k \in 1..Len(x.ids) |-> encode(Unsliced, split(x)[k]).out])
          /\ \A k \in 1..Len(ret.enc_calls) : ret.enc_calls[k][1] = 1
  /\ (ret.op = "decode" /\ use_slicing /\ Len(ret.latent.ids) > 1)
       => /\ ret.out = decode(Unsliced, ret.latent).out
          /\ ret.out = cat([k \in 1..Len(ret.latent.ids) |->
                              decode(Unsliced, split(ret.latent)[k]).out])
          /\ \A k \in 1..Len(ret.dec_calls) : ret.dec_calls[k][1] = 1
  /\ (ret.op = "encode" /\ (~use_slicing \/ Len(x.ids) = 1))
       => \A k \in 1..Len(ret.enc_calls) : ret.enc_calls[k][1] = Len(x.ids)
  /\ (ret.op = "decode" /\ (~use_slicing \/ Len(ret.latent.ids) = 1))
       => \A k \in 1..Len(ret.dec_calls) : ret.dec_calls[k][1] = Len(ret.latent.ids)

\* A batch of two was encoded slice by slice, each slice tiled, without error.
C3_SlicedPair ==
  /\ ret.op = "encode" /\ use_slicing /\ Len(x.ids) = 2
  /\ ret.enc_paths = <<"tiled", "tiled">>
  /\ ~IsErr(ret.out) /\ Len(ret.out.ids) = 2
  /\ ret.out.ids[1].src = 1 /\ ret.out.ids[2].src = 2

\* The conditions under which _encode / _decode must tile.
EncodeMustTile ==
  use_tiling /\ (x.h > tile_sample_min_height \/ x.w > tile_sample_min_width)
DecodeMustTile ==
  use_tiling /\ (ret.latent.h > tile_latent_min_height
                 \/ ret.latent.w > tile_latent_min_width)

TimeAxis(v) == IF conv.kind = "1d" THEN v ELSE v[1]

\* C6: a VidTokCausalConv1d / VidTokCausalConv3d of stride 1 in time, any
\* time kernel k >= 1 and dilation d >= 1, returns as many frames as it was
\* given, and its output at time t is computed from the frames t-d*(k-1) .. t
\* only, padding values standing in for the indices below 0: it never reads
\* an input frame of a time > t.
C6_CausalConvReadsNoLaterFrame ==
  (conv # NoConv /\ conv.ran /\ TimeAxis(conv.m.stride) = 1)
    => LET k == TimeAxis(conv.m.kernel_size)
           d == TimeAxis(conv.m.dilation)
       IN /\ Len(conv.out) = conv.T
          /\ \A o \in 1..Len(conv.out) :
               /\ Len(conv.out[o]) = k
               /\ \A i \in 1..k :
                    LET slot == conv.out[o][i]
                        index == (o - 1) - d * (k - 1) + d * (i - 1)
                    IN /\ slot.pad <=> index < 0
                       /\ ~slot.pad => slot.src = index
                       /\ slot.src <= o - 1

\* C8: with regularizer = "fsq", __init__ fails with an assertion unless
\* codebook_size = 8^z_channels and double_z is false, and succeeds when both
\* hold.
C8_FsqNeedsExactPower ==
  (status # "new" /\ cfg.regularizer = "fsq")
    => IF cfg.codebook_size = Pow(FsqBase, cfg.z_channels) /\ ~cfg.double_z
         THEN status = "ok"
         ELSE status = "AssertionError" /\ FieldsAre(NoObject)

\* C9: with a regularizer other than "kl" and "fsq", __init__ fails with an
\* AssertionError (the 'Invalid regularizer' message) and leaves no object.
C9_InvalidRegularizerAsserts ==
  (status # "new" /\ cfg.regularizer \notin {"kl", "fsq"})
    => status = "AssertionError" /\ FieldsAre(NoObject)

\* The temporal levels the pyramids really have: those of tempo_ds that carry
\* a downsample (the decoder's tempo_us has as many), and their total factor.
TemporalLevels ==
  {i \in tempo_ds(cfg.num_resolutions) : i >= 0 /\ i # cfg.num_resolutions - 1}
TemporalFactor == Pow(2, Cardinality(TemporalLevels))

\* C5 as stated: with is_causal = True the encoder, the decoder and forward
\* are causal frame by frame: the output at a time step is computed from the
\* input at that time step and before only, so perturbing the input at time
\* t changes no output at a time step < t.
C5_FrameCausal ==
  (cfg.is_causal /\ probe # NoProbe /\ ~probe.err)
    => \A u \in 1..Len(probe.deps) : \A t \in probe.deps[u] : t <= u - 1

\* C5 as amended: with is_causal = True the model is causal block by block,
\* a block being f = 2^(temporal levels) frames: latent step j is computed
\* from the input frames below f*(j+1), the decoder's output frame u from the
\* latent steps up to u div f, and forward's output frame u from the input
\* frames below f*((u+p) div f + 1) - p, p being the left time padding.
C5_BlockCausal ==
  (cfg.is_causal /\ probe # NoProbe /\ ~probe.err)
    => /\ Len(probe.deps) = probe.frames
       /\ \A u \in 1..Len(probe.deps) : \A t \in probe.deps[u] :
            LET f == TemporalFactor
                p == probe.time_padding
            IN CASE probe.net = "encoder" -> t < f * u
                 [] probe.net = "decoder" -> t <= (u - 1) \div f
                 [] probe.net = "forward" -> t < f * ((u - 1 + p) \div f + 1) - p

\* forward on a causal model of ratio 4 and 4 frames: the first output frame
\* was computed from the last input frame.
C5_FirstFrameReadsBlock ==
  /\ cfg.is_causal /\ probe # NoProbe /\ ~probe.err /\ probe.net = "forward"
  /\ cfg.temporal_compression_ratio = 4 /\ TemporalFactor = 4
  /\ probe.T = 4 /\ Len(probe.deps) = 4
  /\ probe.deps[1] = {0, 1, 2, 3}

\* C7 as stated: with mix driven to minus infinity the output is exactly the
\* averaging / interpolation path (path A), with mix driven to plus infinity
\* exactly the convolution path (path B).
C7_MinusInfinityIsPathA ==
  (mix # NoMix /\ mix.ran)
    => /\ mix.mix_factor.inf < 0 => mix.out = 1000 * mix.path_a
       /\ mix.mix_factor.inf > 0 => mix.out = 1000 * mix.path_b

\* C7 as amended: with mix driven to minus infinity the output is exactly
\* the convolution path (path B), with mix driven to plus infinity exactly
\* the averaging / interpolation path (path A).
C7_MinusInfinityIsPathB ==
  (mix # NoMix /\ mix.ran)
    => /\ mix.mix_factor.inf < 0 => mix.out = 1000 * mix.path_b
       /\ mix.mix_factor.inf > 0 => mix.out = 1000 * mix.path_a

\* A downsampling block at minus infinity returned the convolution's value,
\* which was not the average's.
C7_DownAtMinusInfinity ==
  /\ mix # NoMix /\ mix.ran /\ mix.kind = "VidTokDownsample3D"
  /\ mix.mix_factor.inf < 0
  /\ mix.path_a # mix.path_b
  /\ mix.out = 1000 * mix.path_b

\* The last module every sample of tensor t went through, and whether any
\* sample went through module name.
LastVia(t) == {t.ids[k].via[Len(t.ids[k].via)] : k \in 1..Len(t.ids)}
WentVia(t, name) ==
  \E k \in 1..Len(t.ids) : \E i \in 1..Len(t.ids[k].via) : t.ids[k].via[i] = name

\* C11: encode returns the posterior wrapper (AutoencoderKLOutput) when the
\* regularizer is "kl" and the quantized tensor itself when it is "fsq";
\* forward decodes posterior.sample() when sample_posterior is true and
\* posterior.mode() when it is false in the "kl" case, and the quantized
\* latent in the "fsq" case, where sample and mode are never called.
C11_RegularizerOutput ==
  /\ (ret.op = "encode" /\ ~IsErr(ret.out))
       => IF cfg.regularizer = "kl"
            THEN /\ ret.kind = "AutoencoderKLOutput"
                 /\ ~WentVia(ret.out, "fsq")
            ELSE /\ ret.kind = "Tensor"
                 /\ LastVia(ret.out) = {"fsq"}
  /\ (ret.op = "forward" /\ ~IsErr(ret.latent))
       => /\ LastVia(ret.latent) =
               IF cfg.regularizer # "kl" THEN {"fsq"}
               ELSE IF ret.sample_posterior THEN {"sample"} ELSE {"mode"}
          /\ cfg.regularizer # "kl"
               => ~WentVia(ret.latent, "sample") /\ ~WentVia(ret.latent, "mode")
          /\ cfg.regularizer = "kl" => ~WentVia(ret.latent, "fsq")
          /\ ~IsErr(ret.out) => ret.dec_calls # <<>>

\* forward on a "kl" model with sample_posterior = FALSE decoded the mode,
\* and the decoder ran on it.
C11_ModeDecoded ==
  /\ ret.op = "forward" /\ cfg.regularizer = "kl" /\ ~ret.sample_posterior
  /\ ~IsErr(ret.latent) /\ ~IsErr(ret.out)
  /\ LastVia(ret.latent) = {"mode"}
  /\ ret.latent.c = cfg.z_channels

(***************************************************************************)
(* SpecPad: the time axis through forward.  probe holds the slots of the   *)
(* padded input handed to encode, the number of frames decode returned and *)
(* the indices of those the crop dec[:, :, time_padding:] kept.            *)
(***************************************************************************)
forward_time_axis(s, sample) ==
  LET r == s.cfg.temporal_compression_ratio
      time_padding == IF (sample.t % r) # 0 THEN r - (sample.t % r) ELSE 0
      padded == IF time_padding # 0
                  THEN F_pad(sample.t, time_padding, 0, "replicate")
                  ELSE F_pad(sample.t, 0, 0, "constant")
      Axis(f, dec) ==
        [net |-> "time_axis", err |-> IsErr(dec) \/ IsErr(f.out), T |-> sample.t,
         time_padding |-> f.time_padding, padded |-> padded,
         decoded |-> dec.t, frames |-> f.out.t,
         kept |-> SubSeq([u \in 1..dec.t |-> u - 1], time_padding + 1, dec.t)]
      Decoded(f) == Axis(f, decode(s, f.latent).out)
  IN Decoded(forward(s, sample, FALSE))

\* self(x), along the time axis
ProbeTimeAxis ==
  /\ status = "ok"
  /\ x # NoTensor
  /\ probe = NoProbe
  /\ probe' = forward_time_axis(self, x)
  /\ UNCHANGED <<cfg, status, fields, x, ret, conv, mix>>

InitPad ==
  \E L \in 1..MaxLevels, r \in 1..MaxRatio, is_causal \in BOOLEAN :
    Constructed(Args(L, r, "kl", 2, 64, TRUE, is_causal, 2))

NextPad ==
  \/ LoadData({1}, 1..MaxProbeFrames, {Pow(2, cfg.num_resolutions - 1)},
              {Pow(2, cfg.num_resolutions - 1)})
  \/ ProbeTimeAxis

SpecPad == InitPad /\ [][NextPad]_vars

\* C12: forward pads the time axis on the left only, by
\* time_padding = (r - T mod r) mod r frames, 0 <= time_padding < r, so that
\* the padded length is the smallest multiple of r that is >= T (nothing is
\* added when T is a multiple of r); every padded frame is a copy of the
\* first input frame; after decoding exactly the first time_padding frames
\* of the output are removed and no others.
C12_LeftReplicatePadding ==
  (probe # NoProbe /\ probe.net = "time_axis")
    => LET r == cfg.temporal_compression_ratio
           p == probe.time_padding
       IN /\ p = (r - (probe.T % r)) % r
          /\ 0 <= p /\ p < r
          /\ Len(probe.padded) = probe.T + p
          /\ Len(probe.padded) % r = 0
          /\ \A q \in 1..Len(probe.padded) :
               IF q <= p
                 THEN probe.padded[q].pad /\ probe.padded[q].src = 0
                 ELSE ~probe.padded[q].pad /\ probe.padded[q].src = q - p - 1
          /\ ~probe.err
               => /\ probe.kept = [u \in 1..(probe.decoded - p) |-> u - 1 + p]
                  /\ probe.frames = Len(probe.kept)
                  /\ probe.frames = probe.decoded - p

\* Five frames under ratio 4 were padded by three copies of frame 0 and the
\* first three of the eight decoded frames were dropped.
C12_FivePaddedToEight ==
  /\ probe # NoProbe /\ probe.net = "time_axis" /\ ~probe.err
  /\ cfg.temporal_compression_ratio = 4 /\ probe.T = 5
  /\ probe.time_padding = 3 /\ Len(probe.padded) = 8
  /\ probe.decoded = 8 /\ probe.kept = <<3, 4, 5, 6, 7>>

(***************************************************************************)
(* SpecTile: enable_tiling with thresholds and overlap factors of the      *)
(* caller's choosing (None, written 0 / NoFactor, keeps the field), then   *)
(* one clip of four frames encoded and its latent decoded.  Heights and    *)
(* widths are the multiples of 2^(L-1).                                    *)
(***************************************************************************)
TileMins == {0, 16, 64}
TileFactors == {NoFactor, Frac(1, 4), Frac(1, 2)}
\* one block of frames under the temporal factor of the deepest pyramid
TileFrames == {4}

InitTile ==
  \E L \in 1..MaxLevels : Constructed(Args(L, 4, "kl", 2, 64, TRUE, TRUE, 2))

NextTile ==
  \/ \E mh \in TileMins, mw \in TileMins, fh \in TileFactors, fw \in TileFactors :
       x = NoTensor /\ EnableTiling(<<mh, mw, fh, fw>>)
  \/ use_tiling /\ LoadData({1}, TileFrames, Multiples, Multiples)
  \/ Encode
  \/ Decode(FALSE)

SpecTile == InitTile /\ [][NextTile]_vars

\* An overlap factor strictly between 0 and 1.
ProperFactor(f) == 0 < f[1] /\ f[1] < f[2]

\* C13: tiling never changes the shape of the result: for every threshold
\* and every overlap factor strictly between 0 and 1 that enable_tiling
\* accepts, and every input with H, W multiples of 2^(L-1), tiled_encode
\* returns a latent of the shape the encoder gives for the whole input
\* (H / 2^(L-1) by W / 2^(L-1)) and tiled_decode a sample of the shape the
\* decoder gives for the whole latent.
C13_TilingKeepsShape ==
  (ProperFactor(tile_overlap_factor_height) /\ ProperFactor(tile_overlap_factor_width))
    => /\ (ret.op = "encode" /\ ret.enc_paths = <<"tiled">>)
            => /\ ~IsErr(ret.out)
               /\ Shape(ret.out) = Shape(Encoder(cfg, x))
               /\ ret.out.h * Pow(2, cfg.num_resolutions - 1) = x.h
               /\ ret.out.w * Pow(2, cfg.num_resolutions - 1) = x.w
       /\ (ret.op = "decode" /\ ret.dec_paths = <<"tiled">>)
            => /\ ~IsErr(ret.out)
               /\ Shape(ret.out) = Shape(Decoder(cfg, ret.latent))

\* The thresholds and overlap factors, now and as the constructor set them.
TileFields ==
  <<tile_sample_min_height, tile_sample_min_width,
    tile_latent_min_height, tile_latent_min_width,
    tile_overlap_factor_height, tile_overlap_factor_width>>
ConstructedTileFields ==
  LET s == AutoencoderVidTok_init(cfg)
  IN <<s.tile_sample_min_height, s.tile_sample_min_width,
       s.tile_latent_min_height, s.tile_latent_min_width,
       s.tile_overlap_factor_height, s.tile_overlap_factor_width>>

\* C14 as stated: the tile thresholds and the overlap factors are immutable
\* after construction: after any sequence of enable_tiling, disable_tiling,
\* enable_slicing, disable_slicing, encode, decode and forward calls they
\* hold the values the constructor computed.
C14_ThresholdsImmutable ==
  status = "ok" => TileFields = ConstructedTileFields

\* C14 as amended: the tile thresholds and the overlap factors are changed
\* by enable_tiling called with an explicit threshold or factor and by
\* nothing else: enable_tiling without arguments, disable_tiling,
\* enable_slicing, disable_slicing, encode, decode and forward leave them as
\* they are, and the latent thresholds are always the sample thresholds
\* divided by 2^(L-1).
C14_OnlyEnableTilingSets ==
  [][/\ TileFields' # TileFields
          => \E args \in TilingArgs :
               args # DefaultTilingArgs /\ EnableTiling(args)
     /\ tile_latent_min_height'
          = tile_sample_min_height' \div Pow(2, cfg.num_resolutions - 1)
     /\ tile_latent_min_width'
          = tile_sample_min_width' \div Pow(2, cfg.num_resolutions - 1)]_vars

\* A threshold set by enable_tiling(64) outlived disable_tiling,
\* enable_slicing and an encode.
C14_SetThresholdKept ==
  /\ status = "ok" /\ ~use_tiling /\ use_slicing /\ ret.op = "encode"
  /\ tile_sample_min_height = 64
  /\ TileFields # ConstructedTileFields

\* The taps of the convolution conv over its T frames padded on the left in
\* pad mode mode.
TapsUnder(mode) ==
  ConvWindows(F_pad(conv.T, conv.m.time_pad, 0, mode),
              TimeAxis(conv.m.kernel_size), TimeAxis(conv.m.stride),
              TimeAxis(conv.m.dilation))

\* C15 as stated: a causal convolution replaces its configured pad mode by
\* constant (zero) padding exactly when the required time pad exceeds the
\* input's time length (time_pad > T); when time_pad <= T the configured pad
\* mode is used.
C15_ConstantWhenPadExceeds ==
  (conv # NoConv /\ conv.ran)
    => conv.out = TapsUnder(IF conv.m.time_pad > conv.T THEN "constant"
                            ELSE conv.m.pad_mode)

\* C15 as amended: a causal convolution replaces its configured pad mode by
\* constant (zero) padding exactly when the required time pad reaches the
\* input's time length (time_pad >= T); when time_pad < T the configured pad
\* mode is used.
C15_ConstantWhenPadReaches ==
  (conv # NoConv /\ conv.ran)
    => conv.out = TapsUnder(IF conv.m.time_pad >= conv.T THEN "constant"
                            ELSE conv.m.pad_mode)

\* A convolution configured to replicate, whose pad of 2 equals the length
\* of its input, padded with zeros: the first output frame read two of them.
C15_ReplicateAtEqualLength ==
  /\ conv # NoConv /\ conv.ran /\ conv.m.pad_mode = "replicate"
  /\ conv.m.time_pad = 2 /\ conv.T = 2
  /\ TimeAxis(conv.m.kernel_size) = 3
  /\ conv.out[1][1] = [pad |-> TRUE, src |-> -1]
  /\ conv.out[1][2] = [pad |-> TRUE, src |-> -1]
  /\ conv.out[1][3] = [pad |-> FALSE, src |-> 0]

(***************************************************************************)
(* SpecConv3d: one VidTokCausalConv3d built with a kernel, a dilation and  *)
(* a stride for each of time, height and width, and applied to T frames.   *)
(***************************************************************************)
\* conv = VidTokCausalConv3d(c, c, kernel_size, dilation=, stride=)
MakeConv3dAxes(kernel_size, dilation, stride) ==
  /\ conv = NoConv
  /\ conv' = [kind |-> "3d", ran |-> FALSE, T |-> 0, out |-> <<>>,
              m |-> VidTokCausalConv3d_init(kernel_size, "constant", dilation, stride)]
  /\ UNCHANGED <<cfg, status, fields, x, ret, mix, probe>>

\* The kernels and strides of one axis: stride 1, or 2 under a kernel of 3.
AxisKernels == {ks \in (1..MaxKernel) \X {1, 2} : ks[2] = 1 \/ ks[1] = 3}

NextConv3d ==
  \/ \E t \in AxisKernels, h \in AxisKernels, w \in AxisKernels,
        d \in (1..MaxDilation) \X (1..MaxDilation) \X (1..MaxDilation) :
       MakeConv3dAxes(<<t[1], h[1], w[1]>>, d, <<t[2], h[2], w[2]>>)
  \/ \E T \in 1..MaxConvFrames : ConvForward(T)

SpecConv3d == InitConv /\ [][NextConv3d]_vars

\* C16: for VidTokCausalConv3d with per-axis kernel (kt, kh, kw), dilation
\* (dt, dh, dw) and stride (st, sh, sw), the time axis is padded by
\* dt*(kt-1)+(1-st) on the leading side and 0 on the trailing side, the
\* height axis by dh*(kh-1)+(1-sh) in total and the width axis by
\* dw*(kw-1)+(1-sw) in total, each split in equal amounts on both sides.
C16_PerAxisPadding ==
  (conv # NoConv /\ conv.kind = "3d")
    => LET k == conv.m.kernel_size
           d == conv.m.dilation
           s == conv.m.stride
           p == conv.m.time_causal_padding
       IN /\ p[5] = d[1] * (k[1] - 1) + (1 - s[1])
          /\ p[6] = 0
          /\ p[3] + p[4] = d[2] * (k[2] - 1) + (1 - s[2])
          /\ p[3] = p[4]
          /\ p[1] + p[2] = d[3] * (k[3] - 1) + (1 - s[3])
          /\ p[1] = p[2]

(***************************************************************************)
(* SpecStitch: the two loop nests of tiled_encode / tiled_decode as the    *)
(* list of what they do, in order.  A step is [op, i, j, a, n, m]: "tile"  *)
(* is the network run on tile (i, j) cut over n frames; "blend_v" and      *)
(* "blend_h" blend tile a into tile (i, j) over an extent of n; "crop"     *)
(* keeps n rows and m columns of tile (i, j); "cat" joins the crops of row *)
(* i along dim n, or the rows when i = -1.                                 *)
(***************************************************************************)
Step(op, i, j, a, n, m) == [op |-> op, i |-> i, j |-> j, a |-> a, n |-> n, m |-> m]

\* for i, row in enumerate(rows): for j, tile in enumerate(row): ...
StitchSteps(rows, blend_extent_height, blend_extent_width, row_limit_height, row_limit_width) ==
  Concat([a \in 1..Len(rows) |->
    Concat([b \in 1..Len(rows[a]) |->
      (IF a - 1 > 0
         THEN <<Step("blend_v", a - 1, b - 1, <<a - 2, b - 1>>,
                     Min(Min(rows[a - 1][b].out.h, rows[a][b].out.h),
                         blend_extent_height), 0)>>
         ELSE <<>>)
      \o (IF b - 1 > 0
            THEN <<Step("blend_h", a - 1, b - 1, <<a - 1, b - 2>>,
                        Min(Min(rows[a][b - 1].out.w, rows[a][b].out.w),
                            blend_extent_width), 0)>>
            ELSE <<>>)
      \o <<Step("crop", a - 1, b - 1, <<>>,
                SliceTo(rows[a][b].out.h, row_limit_height),
                SliceTo(rows[a][b].out.w, row_limit_width))>>])
    \o <<Step("cat", a - 1, -1, <<>>, 4, 0)>>])
  \o <<Step("cat", -1, -1, <<>>, 3, 0)>>

\* for i in range(0, height, overlap_height): for j in range(...): ...
TileSteps(rows) ==
  Concat([a \in 1..Len(rows) |->
            [b \in 1..Len(rows[a]) |->
               Step("tile", a - 1, b - 1, <<>>, rows[a][b].tile[3], 0)]])

\* tiled_encode (net = "encoder") or tiled_decode (net = "decoder") of x,
\* step by step, with the tensor it returns.
tiled_steps(net, s, v) ==
  LET tile_height == IF net = "encoder" THEN s.tile_sample_min_height
                     ELSE s.tile_latent_min_height
      tile_width == IF net = "encoder" THEN s.tile_sample_min_width
                    ELSE s.tile_latent_min_width
      out_height == IF net = "encoder" THEN s.tile_latent_min_height
                    ELSE s.tile_sample_min_height
      out_width == IF net = "encoder" THEN s.tile_latent_min_width
                   ELSE s.tile_sample_min_width
      overlap_height == IntTimesOneMinus(tile_height, s.tile_overlap_factor_height)
      overlap_width == IntTimesOneMinus(tile_width, s.tile_overlap_factor_width)
      blend_extent_height == IntTimes(out_height, s.tile_overlap_factor_height)
      blend_extent_width == IntTimes(out_width, s.tile_overlap_factor_width)
      row_limit_height == out_height - blend_extent_height
      row_limit_width == out_width - blend_extent_width
      Steps(rows, r) ==
        [net |-> net, err |-> IsErr(r.out), T |-> v.t,
         grid |-> <<Len(rows), Len(rows[1])>>,
         row_limit |-> <<row_limit_height, row_limit_width>>,
         out |-> r.out,
         steps |-> IF IsErr(r.out) THEN <<>>
                   ELSE TileSteps(rows)
                        \o StitchSteps(rows, blend_extent_height, blend_extent_width,
                                       row_limit_height, row_limit_width)]
  IN IF overlap_height = 0 \/ overlap_width = 0
       THEN [net |-> net, err |-> TRUE, T |-> v.t, grid |-> <<0, 0>>,
             row_limit |-> <<row_limit_height, row_limit_width>>,
             out |-> Raise("ValueError"), steps |-> <<>>]
       ELSE Steps(TileRows(net, s.cfg, v, tile_height, tile_width,
                           overlap_height, overlap_width),
                  IF net = "encoder" THEN tiled_encode(s, v) ELSE tiled_decode(s, v))

\* self.tiled_encode(x), step by step
ProbeTiledEncode ==
  /\ status = "ok"
  /\ x # NoTensor
  /\ probe = NoProbe
  /\ probe' = tiled_steps("encoder", self, x)
  /\ UNCHANGED <<cfg, status, fields, x, ret, conv, mix>>

\* self.tiled_decode(z) for a latent z of the size of x, step by step
ProbeTiledDecode ==
  /\ status = "ok"
  /\ x # NoTensor
  /\ probe = NoProbe
  /\ probe' = tiled_steps("decoder", self, [x EXCEPT !.c = cfg.z_channels])
  /\ UNCHANGED <<cfg, status, fields, x, ret, conv, mix>>

NextStitch ==
  \/ \E args \in TilingArgs : x = NoTensor /\ EnableTiling(args)
  \/ use_tiling /\ LoadData({1}, TileFrames, TiledSizes, TiledSizes)
  \/ ProbeTiledEncode
  \/ ProbeTiledDecode

SpecStitch == Init /\ [][NextStitch]_vars

\* Where the second loop nest crops tile (i, j) of an R x C grid, counted
\* from the first step: the R * C tile computations come first; row 0
\* takes 2 * C steps (a blend_h before every crop but the first, then the
\* cat), every later row 3 * C (a blend_v more before every crop).
CropAt(i, j, R, C) ==
  R * C + (IF i = 0 THEN 1 + 2 * j ELSE 2 * C + 3 * C * (i - 1) + 2 + 3 * j)

\* The steps with a given op.
StepsOf(op) == {k \in 1..Len(probe.steps) : probe.steps[k].op = op}

\* C17: in tiled_encode and tiled_decode all tiles are first computed, each
\* over the full time axis, then stitched in row-major order: tile (i, j) is
\* blended with the tile above it iff i > 0 and with the tile to its left
\* iff j > 0, and every tile is cropped to at most row_limit rows and
\* columns before concatenation, so that the crops lie side by side in the
\* result: each output position comes from exactly one tile's crop.
C17_StitchOrder ==
  (probe # NoProbe /\ probe.net \in {"encoder", "decoder"} /\ ~probe.err)
    => LET S == probe.steps
           R == probe.grid[1]
           C == probe.grid[2]
           Crop(i, j) == S[CropAt(i, j, R, C)]
       IN /\ StepsOf("tile") = 1..(R * C)
          /\ Cardinality(StepsOf("crop")) = R * C
          /\ Cardinality(StepsOf("blend_v")) = (R - 1) * C
          /\ Cardinality(StepsOf("blend_h")) = R * (C - 1)
          /\ \A i \in 0..(R - 1), j \in 0..(C - 1) :
               LET p == CropAt(i, j, R, C)
                   v == p - (IF j > 0 THEN 2 ELSE 1)
               IN /\ S[i * C + j + 1] = Step("tile", i, j, <<>>, probe.T, 0)
                  /\ <<S[p].op, S[p].i, S[p].j>> = <<"crop", i, j>>
                  /\ S[p].n <= probe.row_limit[1]
                  /\ S[p].m <= probe.row_limit[2]
                  /\ S[p].n = Crop(i, 0).n
                  /\ S[p].m = Crop(0, j).m
                  /\ j > 0 => <<S[p - 1].op, S[p - 1].i, S[p - 1].j, S[p - 1].a>>
                                = <<"blend_h", i, j, <<i, j - 1>>>>
                  /\ i > 0 => <<S[v].op, S[v].i, S[v].j, S[v].a>>
                                = <<"blend_v", i, j, <<i - 1, j>>>>
          /\ probe.out.h = SumSeq([a \in 1..R |-> Crop(a - 1, 0).n])
          /\ probe.out.w = SumSeq([b \in 1..C |-> Crop(0, b - 1).m])

\* A 136 x 136 clip under 64-pixel tiles overlapping by a quarter: nine
\* tiles, the middle one blended from above, then from the left, then
\* cropped to 6 x 6; the latent is 17 x 17.
C17_MiddleTileBlended ==
  /\ probe # NoProbe /\ probe.net = "encoder" /\ ~probe.err
  /\ cfg.num_resolutions = 4 /\ probe.grid = <<3, 3>>
  /\ \E k \in 10..(Len(probe.steps) - 2) :
       /\ probe.steps[k] = Step("blend_v", 1, 1, <<0, 1>>, 2, 0)
       /\ probe.steps[k + 1] = Step("blend_h", 1, 1, <<1, 0>>, 2, 0)
       /\ probe.steps[k + 2] = Step("crop", 1, 1, <<>>, 6, 6)
  /\ probe.out.h = 17 /\ probe.out.w = 17


\* ------------------------------------------------------------------------
\* blend_v and blend_h on their own.  Along the blended axis a tensor is the
\* sequence of its rows (columns); a row of the result is a weighted sum
\* wa * a[src] + wb * (the row b held before), src = 0 standing for no row
\* of a.  The weights are exact fractions.
MaxBlendLen == 4

KeptRow == [src |-> 0, wa |-> Frac(0, 1), wb |-> Frac(1, 1)]

SameFrac(f, g) == f[1] * g[2] = g[1] * f[2]

\* A ramp over the requested extent, whatever the tensors' sizes.
blend_requested(a_len, b_len, blend_extent) ==
  [a |-> [k \in 1..a_len |-> k],
   b |-> [k \in 1..b_len |->
            IF k - 1 < blend_extent
            THEN [src |-> a_len - blend_extent + k,
                  wa |-> Frac(blend_extent - (k - 1), blend_extent),
                  wb |-> Frac(k - 1, blend_extent)]
            ELSE KeptRow]]

\* blend_extent = min(a.shape[d], b.shape[d], blend_extent), then for y in
\* range(blend_extent): b[y] = a[-blend_extent + y] * (1 - y / blend_extent)
\* + b[y] * (y / blend_extent).  a[-n + y] is row len(a) - n + y, here
\* counted from 1; a is only read.
blend(a_len, b_len, blend_extent) ==
  LET Ramp(e) ==
        [a |-> [k \in 1..a_len |-> k],
         b |-> [k \in 1..b_len |->
                  IF k - 1 < e
                  THEN [src |-> a_len - e + k,
                        wa |-> Frac(e - (k - 1), e),
                        wb |-> Frac(k - 1, e)]
                  ELSE KeptRow]]
  IN Ramp(Min(Min(a_len, b_len), blend_extent))

\* blend_v works on dimension 3 (height), blend_h on dimension 4 (width).
blend_v(a, b, blend_extent) == blend(a.h, b.h, blend_extent)
blend_h(a, b, blend_extent) == blend(a.w, b.w, blend_extent)

BlendV(a_len, b_len, blend_extent) ==
  /\ probe = NoProbe
  /\ probe' = [net |-> "blend_v", a_len |-> a_len, b_len |-> b_len,
               blend_extent |-> blend_extent,
               out |-> blend_v([h |-> a_len, w |-> 1], [h |-> b_len, w |-> 1], blend_extent)]
  /\ UNCHANGED <<cfg, status, fields, x, ret, conv, mix>>

BlendH(a_len, b_len, blend_extent) ==
  /\ probe = NoProbe
  /\ probe' = [net |-> "blend_h", a_len |-> a_len, b_len |-> b_len,
               blend_extent |-> blend_extent,
               out |-> blend_h([h |-> 1, w |-> a_len], [h |-> 1, w |-> b_len], blend_extent)]
  /\ UNCHANGED <<cfg, status, fields, x, ret, conv, mix>>

\* The extents reach past the longest tensor.
NextBlend ==
  \/ \E a_len \in 1..MaxBlendLen, b_len \in 1..MaxBlendLen, e \in 0..(MaxBlendLen + 1) :
       BlendV(a_len, b_len, e)
  \/ \E a_len \in 1..MaxBlendLen, b_len \in 1..MaxBlendLen, e \in 0..(MaxBlendLen + 1) :
       BlendH(a_len, b_len, e)

SpecBlend == InitConv /\ [][NextBlend]_vars

\* C18: blend_v(a, b, e) and blend_h(a, b, e) use e' = min(size of a, size
\* of b, e) along the blended axis: row (column) y in 0..e'-1 of b becomes
\* a[-e'+y] * (1 - y/e') + b[y] * (y/e'), the weight on b starting at 0 and
\* growing by 1/e' a row, to reach 1 at row e'; the rows of b from e' on and
\* all of a are unchanged.
C18_BlendRamp ==
  (probe # NoProbe /\ probe.net \in {"blend_v", "blend_h"})
    => LET e == Min(Min(probe.a_len, probe.b_len), probe.blend_extent)
           b == probe.out.b
       IN /\ Len(b) = probe.b_len
          /\ \A k \in 1..probe.b_len :
               IF k - 1 < e
               THEN /\ b[k].src = probe.a_len - e + k
                    /\ b[k].src \in 1..probe.a_len
                    /\ SameFrac(b[k].wb, Frac(k - 1, e))
                    /\ SameFrac(b[k].wa, Frac(e - (k - 1), e))
                    /\ k > 1 => SameFrac(Frac(b[k].wb[1] * e - b[k].wb[2], b[k].wb[2] * e),
                                         b[k - 1].wb)
               ELSE b[k] = KeptRow
          /\ e > 0 => b[1] = [src |-> probe.a_len - e + 1, wa |-> Frac(e, e), wb |-> Frac(0, e)]
          /\ probe.out.a = [k \in 1..probe.a_len |-> k]

\* blend_v of a two-row tile into a four-row tile over a requested extent
\* of three: the effective extent is two, row 0 becomes a's row 0, row 1
\* half of a's row 1 and half of itself, rows 2 and 3 stay.
C18_ShortTileAbove ==
  /\ probe # NoProbe /\ probe.net = "blend_v"
  /\ probe.a_len = 2 /\ probe.b_len = 4 /\ probe.blend_extent = 3
  /\ probe.out.b = <<[src |-> 1, wa |-> Frac(2, 2), wb |-> Frac(0, 2)],
                     [src |-> 2, wa |-> Frac(1, 2), wb |-> Frac(1, 2)],
                     KeptRow, KeptRow>>


\* ------------------------------------------------------------------------
\* One forward pass of VidTokEncoder3D / VidTokDecoder3D on its own: the
\* sub-modules in the order they are called, each with the shape it returns.
\* A pass ends at the first exception.
RECURSIVE Calls(_, _, _, _)
Calls(layers, i, h, c) ==
  LET Rest(out) ==
        <<[layer |-> layers[i], t |-> out.t, h |-> out.h, w |-> out.w, c |-> out.c]>>
        \o Calls(layers, i + 1, out, c)
  IN IF i > Len(layers) \/ IsErr(h) THEN <<>>
     ELSE Rest(LayerShape(layers[i], h, c))

PassConfig(L, n, is_causal) ==
  [TestConfig EXCEPT !.num_resolutions = L, !.num_res_blocks = n, !.is_causal = is_causal]

PassSizes == {8, 16}
LatentSizes == {1, 3}

\* self.encoder(x) for x of shape (1, in_channels, T, H, W)
EncoderForward(L, n, is_causal, T, H, W) ==
  /\ probe = NoProbe
  /\ probe' = [net |-> "VidTokEncoder3D", L |-> L, n |-> n, is_causal |-> is_causal,
               T |-> T, H |-> H, W |-> W,
               calls |-> Calls(EncoderModules[L, n], 1,
                               Tensor(<<Sample(1)>>, DefaultInChannels, T, H, W),
                               PassConfig(L, n, is_causal)),
               out |-> RunShape(EncoderModules[L, n],
                                Tensor(<<Sample(1)>>, DefaultInChannels, T, H, W),
                                PassConfig(L, n, is_causal))]
  /\ UNCHANGED <<cfg, status, fields, x, ret, conv, mix>>

\* self.decoder(z) for z of shape (1, z_channels, T, H, W)
DecoderForward(L, n, is_causal, T, H, W) ==
  /\ probe = NoProbe
  /\ probe' = [net |-> "VidTokDecoder3D", L |-> L, n |-> n, is_causal |-> is_causal,
               T |-> T, H |-> H, W |-> W,
               calls |-> Calls(DecoderModules[L, n], 1,
                               Tensor(<<Sample(1)>>, TestConfig.z_channels, T, H, W),
                               PassConfig(L, n, is_causal)),
               out |-> RunShape(DecoderModules[L, n],
                                Tensor(<<Sample(1)>>, TestConfig.z_channels, T, H, W),
                                PassConfig(L, n, is_causal))]
  /\ UNCHANGED <<cfg, status, fields, x, ret, conv, mix>>

NextPass ==
  \/ \E L \in 1..MaxLevels, n \in 1..MaxResBlocks, is_causal \in BOOLEAN,
        T \in 1..MaxProbeFrames, H \in PassSizes, W \in PassSizes :
       EncoderForward(L, n, is_causal, T, H, W)
  \/ \E L \in 1..MaxLevels, n \in 1..MaxResBlocks, is_causal \in BOOLEAN,
        T \in 1..MaxFrames, H \in LatentSizes, W \in LatentSizes :
       DecoderForward(L, n, is_causal, T, H, W)

SpecPass == InitConv /\ [][NextPass]_vars

\* The positions in the probed pass of the calls of a sub-module.
CallsOf(op, level, block) ==
  {k \in 1..Len(probe.calls) :
     /\ probe.calls[k].layer.op = op
     /\ probe.calls[k].layer.level = level
     /\ probe.calls[k].layer.block = block}
\* The ops of the calls i..j, in order.
OpsFrom(i, j) == [k \in 1..(j - i + 1) |-> probe.calls[i + k - 1].layer.op]
\* The position of the one call of a sub-module.
CallAt(op, level, block) == CHOOSE k \in CallsOf(op, level, block) : TRUE

\* C19: a completed encoder pass runs, for the levels 0..L-1 in increasing
\* order, exactly num_res_blocks pairs (spatial block, then the temporal
\* block of the same index); then, iff the level is not the last, the
\* spatial downsampling by 2 and right after it, iff the level is L-2 or
\* L-3, the temporal downsampling by 2; the middle block (resnet, attention,
\* resnet) runs after all levels, then normalize, activate, project.
C19_EncoderOrder ==
  (probe # NoProbe /\ probe.net = "VidTokEncoder3D" /\ ~IsErr(probe.out))
    => LET S == probe.calls
           L == probe.L
           n == probe.n
           End == Len(S) - 6
       IN /\ S[1].layer.op = "conv_in"
          /\ OpsFrom(End + 1, Len(S))
               = <<"mid.block_1", "mid.attn_1", "mid.block_2",
                   "norm_out", "nonlinearity", "conv_out">>
          /\ \A k \in 2..End :
               /\ S[k].layer.level \in 0..(L - 1)
               /\ S[k].layer.op \in {"down.block", "down_temporal.block",
                                     "down.downsample", "down_temporal.downsample"}
               /\ k > 2 => S[k - 1].layer.level <= S[k].layer.level
          /\ \A k \in {1} \cup ((End + 1)..Len(S)) : S[k].layer.level = -1
          /\ \A i \in 0..(L - 1) :
               /\ \A b \in 0..(n - 1) :
                    /\ Cardinality(CallsOf("down.block", i, b)) = 1
                    /\ CallsOf("down_temporal.block", i, b)
                         = {CallAt("down.block", i, b) + 1}
                    /\ b > 0 => CallAt("down.block", i, b)
                                  = CallAt("down_temporal.block", i, b - 1) + 1
               /\ \A k \in 2..End :
                    (S[k].layer.level = i /\ S[k].layer.block >= 0)
                      => S[k].layer.block \in 0..(n - 1)
               /\ CallsOf("down.downsample", i, -1)
                    = IF i # L - 1
                        THEN {CallAt("down_temporal.block", i, n - 1) + 1}
                        ELSE {}
               /\ CallsOf("down_temporal.downsample", i, -1)
                    = IF i # L - 1 /\ i \in {L - 2, L - 3}
                        THEN {CallAt("down.downsample", i, -1) + 1}
                        ELSE {}
          /\ \A k \in 2..End :
               /\ S[k].layer.op = "down.downsample"
                    => <<S[k].t, S[k].h, S[k].w>>
                         = <<S[k - 1].t, S[k - 1].h \div 2, S[k - 1].w \div 2>>
               /\ S[k].layer.op = "down_temporal.downsample"
                    => <<S[k].t, S[k].h, S[k].w>>
                         = <<S[k - 1].t \div 2, S[k - 1].h, S[k - 1].w>>

\* A causal four-level encoder with two blocks a level on a 4 x 16 x 16
\* clip: 28 calls; level 1 ends with the spatial downsampling (call 11) and
\* the temporal one (call 12, 4 frames to 2).
C19_LevelOneDownsamples ==
  /\ probe # NoProbe /\ probe.net = "VidTokEncoder3D" /\ ~IsErr(probe.out)
  /\ probe.L = 4 /\ probe.n = 2 /\ probe.T = 4 /\ probe.H = 16
  /\ Len(probe.calls) = 28
  /\ probe.calls[10].layer = Layer("encoder", "down_temporal.block", 1, 1)
  /\ probe.calls[11].layer = Layer("encoder", "down.downsample", 1, -1)
  /\ probe.calls[12].layer = Layer("encoder", "down_temporal.downsample", 1, -1)
  /\ probe.calls[11].h = 4 /\ probe.calls[12].t = 2
  /\ probe.out.t = 1 /\ probe.out.h = 2


\* C20: a completed decoder pass runs the middle block first, then for the
\* levels L-1 down to 0 exactly num_res_blocks + 1 pairs (spatial block,
\* then the temporal block of the same index); iff the level is not 0 the
\* spatial upsampling by 2 and right after it, iff the level is 1 or 2, the
\* temporal upsampling by 2; then normalize, activate, project to
\* out_channels.  The output is 2^(L-1) times the latent's height and width.
C20_DecoderOrder ==
  (probe # NoProbe /\ probe.net = "VidTokDecoder3D" /\ ~IsErr(probe.out))
    => LET S == probe.calls
           L == probe.L
           n == probe.n
           End == Len(S) - 3
       IN /\ OpsFrom(1, 4) = <<"conv_in", "mid.block_1", "mid.attn_1", "mid.block_2">>
          /\ OpsFrom(End + 1, Len(S)) = <<"norm_out", "nonlinearity", "conv_out">>
          /\ \A k \in 5..End :
               /\ S[k].layer.level \in 0..(L - 1)
               /\ S[k].layer.op \in {"up.block", "up_temporal.block",
                                     "up.upsample", "up_temporal.upsample"}
               /\ k > 5 => S[k - 1].layer.level >= S[k].layer.level
          /\ \A k \in (1..4) \cup ((End + 1)..Len(S)) : S[k].layer.level = -1
          /\ \A i \in 0..(L - 1) :
               /\ \A b \in 0..n :
                    /\ Cardinality(CallsOf("up.block", i, b)) = 1
                    /\ CallsOf("up_temporal.block", i, b) = {CallAt("up.block", i, b) + 1}
                    /\ b > 0 => CallAt("up.block", i, b)
                                  = CallAt("up_temporal.block", i, b - 1) + 1
               /\ \A k \in 5..End :
                    (S[k].layer.level = i /\ S[k].layer.block >= 0)
                      => S[k].layer.block \in 0..n
               /\ CallsOf("up.upsample", i, -1)
                    = IF i # 0 THEN {CallAt("up_temporal.block", i, n) + 1} ELSE {}
               /\ CallsOf("up_temporal.upsample", i, -1)
                    = IF i # 0 /\ i \in {1, 2}
                        THEN {CallAt("up.upsample", i, -1) + 1}
                        ELSE {}
          /\ \A k \in 5..End :
               /\ S[k].layer.op = "up.upsample"
                    => <<S[k].t, S[k].h, S[k].w>>
                         = <<S[k - 1].t, 2 * S[k - 1].h, 2 * S[k - 1].w>>
               /\ S[k].layer.op = "up_temporal.upsample"
                    => <<S[k].t, S[k].h, S[k].w>>
                         = <<2 * S[k - 1].t, S[k - 1].h, S[k - 1].w>>
          /\ probe.out.c = DefaultOutChannels
          /\ probe.out.h = Pow(2, L - 1) * probe.H
          /\ probe.out.w = Pow(2, L - 1) * probe.W

\* A four-level decoder with two blocks a level on a 1 x 3 x 1 latent: 36
\* calls; level 3 has three pairs and only the spatial upsampling (call 11),
\* level 2 both (calls 18 and 19); the output is 4 frames of 24 x 8.
C20_TopLevelSpatialOnly ==
  /\ probe # NoProbe /\ probe.net = "VidTokDecoder3D" /\ ~IsErr(probe.out)
  /\ probe.L = 4 /\ probe.n = 2 /\ probe.T = 1 /\ probe.H = 3 /\ probe.W = 1
  /\ Len(probe.calls) = 36
  /\ probe.calls[10].layer = Layer("decoder", "up_temporal.block", 3, 2)
  /\ probe.calls[11].layer = Layer("decoder", "up.upsample", 3, -1)
  /\ probe.calls[12].layer = Layer("decoder", "up.block", 2, 0)
  /\ probe.calls[18].layer = Layer("decoder", "up.upsample", 2, -1)
  /\ probe.calls[19].layer = Layer("decoder", "up_temporal.upsample", 2, -1)
  /\ probe.calls[19].t = 2
  /\ <<probe.out.t, probe.out.h, probe.out.w>> = <<4, 24, 8>>


\* ------------------------------------------------------------------------
\* The encoder on a clip, then the decoder on a latent of the encoder's
\* output size with z_channels channels: the calls of both passes.
RoundTripOf(L, n, is_causal, T, H, W) ==
  LET c == PassConfig(L, n, is_causal)
      Both(e) ==
        [net |-> "round_trip", L |-> L, n |-> n, is_causal |-> is_causal,
         T |-> T, H |-> H, W |-> W,
         enc |-> Calls(EncoderModules[L, n], 1,
                       Tensor(<<Sample(1)>>, DefaultInChannels, T, H, W), c),
         latent |-> e,
         dec |-> IF IsErr(e) THEN <<>>
                 ELSE Calls(DecoderModules[L, n], 1,
                            Tensor(e.ids, c.z_channels, e.t, e.h, e.w), c),
         out |-> IF IsErr(e) THEN e
                 ELSE RunShape(DecoderModules[L, n],
                               Tensor(e.ids, c.z_channels, e.t, e.h, e.w), c)]
  IN Both(RunShape(EncoderModules[L, n],
                   Tensor(<<Sample(1)>>, DefaultInChannels, T, H, W), c))

RoundTrip(L, n, is_causal, T, H, W) ==
  /\ probe = NoProbe
  /\ probe' = RoundTripOf(L, n, is_causal, T, H, W)
  /\ UNCHANGED <<cfg, status, fields, x, ret, conv, mix>>

NextRound ==
  \E L \in 1..MaxLevels, n \in 1..MaxResBlocks, is_causal \in BOOLEAN,
     T \in 1..MaxProbeFrames, H \in PassSizes, W \in PassSizes :
    RoundTrip(L, n, is_causal, T, H, W)

SpecRound == InitConv /\ [][NextRound]_vars

\* How many of the calls i..j of a pass are calls of op.
CountOps(calls, op, i, j) ==
  Cardinality({k \in i..j : k \in 1..Len(calls) /\ calls[k].layer.op = op})
\* Where a pass first calls a block of a level.
LevelStart(calls, op, level) ==
  CHOOSE k \in 1..Len(calls) : calls[k].layer = Layer(calls[k].layer.net, op, level, 0)

\* The (spatial, temporal) scale, relative to the video, at which the
\* encoder and the decoder run the blocks of a level: the encoder has
\* downsampled that much before them, the decoder will upsample that much
\* after them.
EncoderScale(level) ==
  LET p == LevelStart(probe.enc, "down.block", level)
  IN <<Pow(2, CountOps(probe.enc, "down.downsample", 1, p)),
       Pow(2, CountOps(probe.enc, "down_temporal.downsample", 1, p))>>
DecoderScale(level) ==
  LET p == LevelStart(probe.dec, "up.block", level)
  IN <<Pow(2, CountOps(probe.dec, "up.upsample", p, Len(probe.dec))),
       Pow(2, CountOps(probe.dec, "up_temporal.upsample", p, Len(probe.dec)))>>

RoundTripDone == probe # NoProbe /\ probe.net = "round_trip" /\ ~IsErr(probe.out)

\* C21 as stated: the decoder pyramid is the mirror of the encoder pyramid:
\* for every ch_mult length L the (spatial scale, temporal scale) pairs the
\* decoder passes through, latent to output, are the reverse of those the
\* encoder passes through, input to latent.
C21_DecoderMirrorsEncoder ==
  RoundTripDone
    => \A level \in 0..(probe.L - 1) : DecoderScale(level) = EncoderScale(level)

\* C21 as amended: the decoder's scales are the reverse of the encoder's for
\* every ch_mult length L <= 3; for longer ch_mult the two sequences agree
\* at their ends (the video and the latent) and in every spatial scale, and
\* the decoder doubles the frames at levels 1 and 2 where the mirror image
\* of the encoder would double them at levels L-1 and L-2.
C21_MirrorUpToThreeLevels ==
  RoundTripDone
    => /\ probe.L <= 3
            => \A level \in 0..(probe.L - 1) : DecoderScale(level) = EncoderScale(level)
       /\ DecoderScale(0) = <<1, 1>> /\ EncoderScale(0) = <<1, 1>>
       /\ DecoderScale(probe.L - 1) = EncoderScale(probe.L - 1)
       /\ \A level \in 0..(probe.L - 1) :
            /\ DecoderScale(level)[1] = EncoderScale(level)[1]
            /\ DecoderScale(level)[2]
                 = Pow(2, Cardinality({i \in 1..level : i \in {1, 2}}))
            /\ EncoderScale(level)[2]
                 = Pow(2, Cardinality({i \in 1..level : i \in {probe.L - 1, probe.L - 2}}))

\* Three levels on 4 frames of 8 x 8: both pyramids run level 1 at scale
\* (2, 2) and level 2 at scale (4, 4), and the round trip returns 4 frames.
C21_ThreeLevelsMirrored ==
  /\ RoundTripDone
  /\ probe.L = 3 /\ probe.T = 4 /\ probe.H = 8
  /\ EncoderScale(1) = <<2, 2>> /\ DecoderScale(1) = <<2, 2>>
  /\ EncoderScale(2) = <<4, 4>> /\ DecoderScale(2) = <<4, 4>>
  /\ probe.out.t = 4


\* How many of the modules a pass calls are op.
Stages(layers, op) == Cardinality({k \in 1..Len(layers) : layers[k].op = op})
\* The passes of the constructed model.
EncoderPass == EncoderModules[cfg.num_resolutions, cfg.num_res_blocks]
DecoderPass == DecoderModules[cfg.num_resolutions, cfg.num_res_blocks]
\* The factor by which the encoder's temporal stages divide the frames.
EncoderTemporalFactor == Pow(2, Stages(EncoderPass, "down_temporal.downsample"))

\* C22: for every ch_mult length the encoder executes as many temporal
\* downsampling stages as the decoder executes temporal upsampling stages,
\* and L-1 spatial stages each; so, whatever temporal_compression_ratio is
\* configured, encode succeeds and decode of its latent has the T, H, W of x
\* whenever T is a multiple of the encoder's temporal factor and H, W are
\* multiples of 2^(L-1).
C22_StagesMatch ==
  /\ Stages(EncoderPass, "down_temporal.downsample")
       = Stages(DecoderPass, "up_temporal.upsample")
  /\ Stages(EncoderPass, "down.downsample") = cfg.num_resolutions - 1
  /\ Stages(DecoderPass, "up.upsample") = cfg.num_resolutions - 1
  /\ (ret.op = "encode" /\ x.t % EncoderTemporalFactor = 0
        /\ x.h % Pow(2, cfg.num_resolutions - 1) = 0
        /\ x.w % Pow(2, cfg.num_resolutions - 1) = 0)
       => /\ ~IsErr(ret.out)
          /\ ret.out.t * EncoderTemporalFactor = x.t
  /\ (ret.op = "decode" /\ LatentFits /\ x.t % EncoderTemporalFactor = 0
        /\ x.h % Pow(2, cfg.num_resolutions - 1) = 0
        /\ x.w % Pow(2, cfg.num_resolutions - 1) = 0)
       => /\ ~IsErr(ret.out)
          /\ <<ret.out.t, ret.out.h, ret.out.w>> = <<x.t, x.h, x.w>>

\* Four levels configured with temporal_compression_ratio 1: the clip of 4
\* frames is encoded to one latent frame and decoded back to 4 frames.
C22_RatioOneFourFrames ==
  /\ ret.op = "decode" /\ LatentFits /\ ~IsErr(ret.out)
  /\ cfg.num_resolutions = 4 /\ cfg.temporal_compression_ratio = 1
  /\ EncoderTemporalFactor = 4
  /\ x.t = 4 /\ ret.latent.t = 1
  /\ <<ret.out.t, ret.out.h, ret.out.w>> = <<4, x.h, x.w>>


\* ------------------------------------------------------------------------
\* VidTokDownsample3D.forward path by path: the (T, H, W) the average pool
\* (x1) and the convolution (x2) compute for an input of T x H x W, a
\* length below 1 being one the layer refuses with an exception.
VidTokDownsample3D_paths(T, H, W, is_causal) ==
  LET m == VidTokCausalConv3d_init(cast_tuple(3, 3), "constant",
                                      cast_tuple(1, 3), <<2, 1, 1>>)
      p == m.time_causal_padding
  IN [x1 |-> <<AvgPoolOutLen(T + 1), H, W>>,
      x2 |-> IF is_causal
               THEN <<ConvOutLen(T + p[5] + p[6], 3, 2, 1),
                      ConvOutLen(H + p[3] + p[4], 3, 1, 1),
                      ConvOutLen(W + p[1] + p[2], 3, 1, 1)>>
               ELSE <<ConvOutLen(T + 1, 3, 2, 1),
                      ConvOutLen(H + 2, 3, 1, 1),
                      ConvOutLen(W + 2, 3, 1, 1)>>]

DownsampleForward(is_causal, T, H, W) ==
  /\ probe = NoProbe
  /\ probe' = [net |-> "VidTokDownsample3D", is_causal |-> is_causal,
               T |-> T, H |-> H, W |-> W,
               paths |-> VidTokDownsample3D_paths(T, H, W, is_causal),
               out |-> VidTokDownsample3DShape(
                         Tensor(<<Sample(1)>>, DefaultCh, T, H, W), is_causal)]
  /\ UNCHANGED <<cfg, status, fields, x, ret, conv, mix>>

NextDown ==
  \/ \E is_causal \in BOOLEAN, T \in 1..MaxProbeFrames, H \in PassSizes, W \in PassSizes :
       DownsampleForward(is_causal, T, H, W)
  \/ \E L \in 1..MaxLevels, n \in 1..MaxResBlocks, is_causal \in BOOLEAN,
        T \in 1..MaxProbeFrames, H \in PassSizes, W \in PassSizes :
       EncoderForward(L, n, is_causal, T, H, W)

SpecDown == InitConv /\ [][NextDown]_vars

\* C23: in VidTokDownsample3D, causal or not, for every input of T >= 2
\* frames the average-pool path and the strided-convolution path have the
\* same shape, floor(T/2) frames of the input's height and width, so the
\* blend is defined; with T = 1 neither path has a frame to give (the padded
\* input is shorter than the kernel) and there is no output, so the encoder
\* gives no output on fewer than 2^(number of temporal stages) frames.
C23_PathsAgree ==
  /\ (probe # NoProbe /\ probe.net = "VidTokDownsample3D")
       => IF probe.T >= 2
            THEN /\ probe.paths.x1 = <<probe.T \div 2, probe.H, probe.W>>
                 /\ probe.paths.x2 = probe.paths.x1
                 /\ ~IsErr(probe.out)
                 /\ <<probe.out.t, probe.out.h, probe.out.w>> = probe.paths.x1
            ELSE /\ probe.paths.x1[1] < 1
                 /\ probe.paths.x2[1] < 1
                 /\ IsErr(probe.out)
  /\ (probe # NoProbe /\ probe.net = "VidTokEncoder3D"
        /\ probe.T < Pow(2, Stages(EncoderModules[probe.L, probe.n],
                                   "down_temporal.downsample")))
       => IsErr(probe.out)

\* A non-causal block on 5 frames of 8 x 16: both paths give 2 frames of
\* 8 x 16.
C23_FiveFramesToTwo ==
  /\ probe # NoProbe /\ probe.net = "VidTokDownsample3D" /\ ~probe.is_causal
  /\ probe.T = 5 /\ probe.H = 8 /\ probe.W = 16
  /\ probe.paths = [x1 |-> <<2, 8, 16>>, x2 |-> <<2, 8, 16>>]
  /\ <<probe.out.t, probe.out.h, probe.out.w>> = <<2, 8, 16>>


(***************************************************************************)
(* SpecFlags: one model object from before its construction, under every   *)
(* order of the four switches and of encode, decode and forward.           *)
(* enable_tiling is called with thresholds that are and are not multiples  *)
(* of 2^(L-1), and with any of its arguments left at None.                 *)
(***************************************************************************)
FlagMins == {0, 20, 64}
FlagFactors == {NoFactor, Frac(1, 4)}
FlagSampleSizes == {100, 256}
FlagArgs == FlagMins \X FlagMins \X FlagFactors \X FlagFactors

InitFlags ==
  /\ \E L \in 1..MaxLevels, size \in FlagSampleSizes :
       cfg = [Args(L, 4, "kl", 2, 64, TRUE, TRUE, 2)
                EXCEPT !.sample_height = size, !.sample_width = size]
  /\ status = "new"
  /\ FieldsAre(NoObject)
  /\ x = NoTensor
  /\ ret = NoCall
  /\ NoParts

NextFlags ==
  \/ Construct
  \/ \E args \in FlagArgs : EnableTiling(args)
  \/ DisableTiling
  \/ EnableSlicing
  \/ DisableSlicing
  \/ LoadData({2}, {4}, {32}, {32})
  \/ Encode
  \/ \E sample_posterior \in BOOLEAN : Decode(sample_posterior)
  \/ \E sample_posterior \in BOOLEAN : Forward(sample_posterior)

SpecFlags == InitFlags /\ [][NextFlags]_vars

\* int(tile_sample_min / 2 ** (len(ch_mult) - 1)) for both thresholds
LatentMinsFollow ==
  /\ tile_latent_min_height = tile_sample_min_height \div Pow(2, cfg.num_resolutions - 1)
  /\ tile_latent_min_width = tile_sample_min_width \div Pow(2, cfg.num_resolutions - 1)

\* C24: after construction and after any sequence of enable_tiling (with
\* any arguments, some or all of them None or 0), disable_tiling,
\* enable_slicing and disable_slicing, each latent threshold is
\* int(sample threshold / 2^(L-1)); an argument of enable_tiling that is
\* None (or 0) leaves its threshold or overlap factor at its previous value,
\* any other argument becomes the field's value.
C24_LatentThresholdsFollow ==
  [][/\ status' = "ok" => LatentMinsFollow'
     /\ \A args \in FlagArgs :
          EnableTiling(args)
            => /\ tile_sample_min_height'
                    = IF args[1] = 0 THEN tile_sample_min_height ELSE args[1]
               /\ tile_sample_min_width'
                    = IF args[2] = 0 THEN tile_sample_min_width ELSE args[2]
               /\ tile_overlap_factor_height'
                    = IF args[3] = NoFactor THEN tile_overlap_factor_height ELSE args[3]
               /\ tile_overlap_factor_width'
                    = IF args[4] = NoFactor THEN tile_overlap_factor_width ELSE args[4]]_vars

\* A four-level model of sample size 100 after enable_tiling(
\* tile_sample_min_height=20, tile_overlap_factor_width=0.25) and
\* disable_tiling: the height threshold is 20 and its latent int(20 / 8) = 2,
\* the width threshold is still the constructor's 50 with latent 6, the
\* height factor still 1/8.
C24_HeightSetWidthKept ==
  /\ status = "ok" /\ cfg.num_resolutions = 4 /\ cfg.sample_width = 100
  /\ ~use_tiling
  /\ tile_sample_min_height = 20 /\ tile_latent_min_height = 2
  /\ tile_sample_min_width = 50 /\ tile_latent_min_width = 6
  /\ tile_overlap_factor_height = Frac(1, 8)
  /\ tile_overlap_factor_width = Frac(1, 4)


\* The thresholds and overlap factors.
TileSettings ==
  <<tile_sample_min_height, tile_sample_min_width,
    tile_latent_min_height, tile_latent_min_width,
    tile_overlap_factor_height, tile_overlap_factor_width>>

\* C25: a new model has tiling and slicing both disabled;
\* enable_slicing / disable_slicing change only the slicing flag,
\* disable_tiling changes only the tiling flag (the thresholds and factors
\* an earlier enable_tiling set are kept), enable_tiling never changes the
\* slicing flag; encode, decode and forward change none of these fields
\* (ret holds the record of a call exactly after a step of one of the three).
C25_SwitchFrames ==
  [][/\ (Construct /\ status' = "ok") => (~use_tiling' /\ ~use_slicing')
     /\ EnableSlicing => (use_slicing' /\ UNCHANGED <<use_tiling, TileSettings>>)
     /\ DisableSlicing => (~use_slicing' /\ UNCHANGED <<use_tiling, TileSettings>>)
     /\ DisableTiling => (~use_tiling' /\ UNCHANGED <<use_slicing, TileSettings>>)
     /\ (\E args \in FlagArgs : EnableTiling(args))
          => (use_tiling' /\ UNCHANGED use_slicing)
     /\ ret'.op \in {"encode", "decode", "forward"}
          => UNCHANGED <<use_slicing, use_tiling, TileSettings>>]_vars

\* After enable_tiling(64, 64, 0.25, 0.25), enable_slicing, disable_tiling
\* and a forward: slicing on, tiling off, the thresholds and factors still
\* those enable_tiling set.
C25_SettingsOutliveDisable ==
  /\ status = "ok" /\ ret.op = "forward"
  /\ use_slicing /\ ~use_tiling
  /\ cfg.num_resolutions = 4
  /\ TileSettings = <<64, 64, 8, 8, Frac(1, 4), Frac(1, 4)>>

====
